---- MODULE Spec2Model ----
(***************************************************************************)
(* Verification model of the invoice extraction core (src/ai.py,           *)
(* src/utils.py, src/app.py).                                              *)
(*                                                                         *)
(* Representation                                                          *)
(*  - a Python str is a sequence of characters; a character is a one-      *)
(*    element TLA+ string.  SANY accepts only ASCII, so the Latin letters  *)
(*    stand for the letters of either script, and the Arabic-indic digits  *)
(*    and the two Arabic separators are written "ar0" .. "ar9", "ar." and  *)
(*    "ar,".                                                               *)
(*  - Optional[x] is a sequence of length at most one: None is << >> and   *)
(*    a present value v is <<v>>.                                          *)
(*  - a Python float is a fixed-point decimal counted in hundredths        *)
(*    (2.00 is 200).  The input sets below hold only values with at most   *)
(*    two significant decimals and whole quantities, for which products    *)
(*    and sums are exact, and no two values exactly 0.01 apart.            *)
(***************************************************************************)
EXTENDS Integers, Sequences, FiniteSets, TLC

VARIABLES
    pc,        \* position in the step sequence of the specification in use
    inv,       \* the InvoiceData record in hand (Optional): invoice_data
    inv0,      \* the record as it was on entry to the stage under study
    inv1,      \* the record after the first application of the stage
    lines,     \* the source text lines of the PDF (Optional list of str)
    fileKind,  \* "pdf" | "image" | "other": is_pdf_file / is_image_file
    image,     \* "ok" | "none" once pdf_to_image or the file read has run
    textOut,   \* what the inference service did on the text call (Optional)
    visionOut, \* what the inference service did on the vision call (Optional)
    textRet,   \* outcome of extract_invoice_data_from_pdf_text_with_lines
    visionRet, \* outcome of extract_invoice_data_from_image
    result,    \* outcome of _process_single_invoice (Optional)
    calls,     \* the strategy steps taken for the document, in order
    arg,       \* argument of a pure function under study
    out,       \* its result (Optional)
    _client,   \* the module global _client of src/ai.py (Optional client)
    environ,   \* OPENAI_API_KEY in the process environment (Optional)
    clients,   \* how many OpenAI(...) objects were constructed so far
    proc,      \* the pipelines running side by side: position and locals
    files,     \* the uploaded files handed to upload_files, in order
    file_no,   \* how many of them the per-file loop has been through
    all_rows,  \* all_rows of upload_files
    processed_count,   \* processed_count of upload_files
    failed_files       \* failed_files of upload_files

vars == <<pc, inv, inv0, inv1, lines, fileKind, image, textOut, visionOut, textRet,
          visionRet, result, calls, arg, out, _client, environ, clients, proc,
          files, file_no, all_rows, processed_count, failed_files>>

\* the variables of the per-document pipeline
pipeVars == <<fileKind, image, textOut, visionOut, textRet, visionRet, result, calls>>

clientVars == <<_client, environ, clients, proc>>

\* the variables of one upload request
batchVars == <<files, file_no, all_rows, processed_count, failed_files>>

(***************************************************************************)
(* Generic helpers                                                         *)
(***************************************************************************)
None == << >>

Some(v) == <<v>>

IsNone(o) == o = << >>

Val(o) == o[1]

Min(a, b) == IF a <= b THEN a ELSE b

Abs(a) == IF a < 0 THEN -a ELSE a

RECURSIVE SeqSum(_)
SeqSum(s) == IF s = << >> THEN 0 ELSE Head(s) + SeqSum(Tail(s))

\* all sequences over S of length 0..n
RECURSIVE SeqsUpTo(_, _)
SeqsUpTo(S, n) ==
    IF n = 0 THEN { << >> }
    ELSE LET shorter == SeqsUpTo(S, n - 1)
         IN  shorter \cup { Append(s, x) : s \in { t \in shorter : Len(t) = n - 1 }, x \in S }

(***************************************************************************)
(* Python str primitives                                                   *)
(***************************************************************************)
SP == " "

WesternDigits == {"0", "1", "2", "3", "4", "5", "6", "7", "8", "9"}

DigitVal(c) ==
    CASE c = "0" -> 0 [] c = "1" -> 1 [] c = "2" -> 2 [] c = "3" -> 3
      [] c = "4" -> 4 [] c = "5" -> 5 [] c = "6" -> 6 [] c = "7" -> 7
      [] c = "8" -> 8 [] c = "9" -> 9

\* str.isdigit() on the characters of the model's alphabet (the Arabic-indic
\* digits are digits for Python too)
ArabicDigits == {"ar0", "ar1", "ar2", "ar3", "ar4", "ar5", "ar6", "ar7", "ar8", "ar9"}

IsDigitChar(c) == c \in WesternDigits \cup ArabicDigits

\* str.lower() on one character
LowerChar(c) ==
    CASE c = "A" -> "a" [] c = "B" -> "b" [] c = "C" -> "c" [] c = "D" -> "d"
      [] c = "E" -> "e" [] c = "F" -> "f" [] c = "G" -> "g" [] c = "H" -> "h"
      [] c = "I" -> "i" [] c = "J" -> "j" [] c = "K" -> "k" [] c = "L" -> "l"
      [] c = "M" -> "m" [] c = "N" -> "n" [] c = "O" -> "o" [] c = "P" -> "p"
      [] c = "Q" -> "q" [] c = "R" -> "r" [] c = "S" -> "s" [] c = "T" -> "t"
      [] c = "U" -> "u" [] c = "V" -> "v" [] c = "W" -> "w" [] c = "X" -> "x"
      [] c = "Y" -> "y" [] c = "Z" -> "z"
      [] OTHER -> c

Lower(s) == [i \in 1..Len(s) |-> LowerChar(s[i])]

\* s[i:j] for 1-based inclusive bounds; empty when i > j
Slice(s, i, j) == IF i > j THEN << >> ELSE SubSeq(s, i, j)

\* `pat in s`
Contains(s, pat) ==
    \E i \in 1..(Len(s) - Len(pat) + 1) : SubSeq(s, i, i + Len(pat) - 1) = pat

RECURSIVE LStrip(_)
LStrip(s) == IF s # << >> /\ Head(s) = SP THEN LStrip(Tail(s)) ELSE s

RECURSIVE RStrip(_)
RStrip(s) ==
    IF s # << >> /\ s[Len(s)] = SP THEN RStrip(SubSeq(s, 1, Len(s) - 1)) ELSE s

\* str.strip()
Strip(s) == RStrip(LStrip(s))

\* str.split(): the maximal runs of non-blank characters, in order
RECURSIVE SplitFrom(_, _, _)
SplitFrom(s, cur, acc) ==
    IF s = << >> THEN (IF cur = << >> THEN acc ELSE Append(acc, cur))
    ELSE IF Head(s) = SP
         THEN SplitFrom(Tail(s), << >>, IF cur = << >> THEN acc ELSE Append(acc, cur))
         ELSE SplitFrom(Tail(s), Append(cur, Head(s)), acc)

Split(s) == SplitFrom(s, << >>, << >>)

\* " ".join(parts)
RECURSIVE Join(_)
Join(parts) ==
    IF parts = << >> THEN << >>
    ELSE IF Len(parts) = 1 THEN parts[1]
    ELSE parts[1] \o <<SP>> \o Join(Tail(parts))

\* [p for p in parts if p]
RECURSIVE DropEmpty(_)
DropEmpty(parts) ==
    IF parts = << >> THEN << >>
    ELSE IF Head(parts) = << >> THEN DropEmpty(Tail(parts))
    ELSE <<Head(parts)>> \o DropEmpty(Tail(parts))

RECURSIVE FilterChars(_, _)
FilterChars(s, keep) ==
    IF s = << >> THEN << >>
    ELSE IF Head(s) \in keep THEN <<Head(s)>> \o FilterChars(Tail(s), keep)
    ELSE FilterChars(Tail(s), keep)

(***************************************************************************)
(* Values handed between the functions                                     *)
(*                                                                         *)
(* The outcome of a call is a record [k, v, msg]: it returned v or raised.  *)
(* A JSON value (and an argument typed Optional[Union[str, int, float]])   *)
(* is a record [t, s, n, l]: t tells null, str, num (n counted in          *)
(* hundredths) or list.                                                    *)
(***************************************************************************)
\* a call that returned v
Return(v) == [k |-> "return", v |-> v, msg |-> ""]

\* a call that raised ValueError(msg)
Raise(msg) == [k |-> "raise", v |-> None, msg |-> msg]

JAbsent == [t |-> "absent", s |-> << >>, n |-> 0, l |-> << >>]

JNull == [t |-> "null", s |-> << >>, n |-> 0, l |-> << >>]

JStr(s) == [t |-> "str", s |-> s, n |-> 0, l |-> << >>]

JNum(n) == [t |-> "num", s |-> << >>, n |-> n, l |-> << >>]

JList(l) == [t |-> "list", s |-> << >>, n |-> 0, l |-> l]

\* bool(v)
PyTruthy(v) ==
    CASE v.t = "str" -> v.s # << >>
      [] v.t = "num" -> v.n # 0
      [] v.t = "list" -> v.l # << >>
      [] OTHER -> FALSE

\* the decimal digits of a natural number
RECURSIVE DigitsOf(_)
DigitsOf(n) ==
    LET d == <<"0", "1", "2", "3", "4", "5", "6", "7", "8", "9">>
    IN  IF n < 10 THEN <<d[n + 1]>> ELSE Append(DigitsOf(n \div 10), d[(n % 10) + 1])

\* str(n) for a number n >= 0 counted in hundredths: without fraction its
\* digits (an int of the JSON text), else with one or two decimals
StrOfNat(n) ==
    IF n % 100 = 0 THEN DigitsOf(n \div 100)
    ELSE IF n % 10 = 0
    THEN DigitsOf(n \div 100) \o <<".">> \o DigitsOf((n % 100) \div 10)
    ELSE DigitsOf(n \div 100) \o <<".">> \o DigitsOf((n % 100) \div 10) \o DigitsOf(n % 10)

\* str(value)
StrOf(v) ==
    CASE v.t = "str" -> v.s
      [] v.t = "num" -> (IF v.n < 0 THEN <<"-">> \o StrOfNat(0 - v.n) ELSE StrOfNat(v.n))
      [] OTHER -> <<"N", "o", "n", "e">>

(***************************************************************************)
(* Numeric Normalizer (src/utils.py)                                       *)
(***************************************************************************)
\* ARABIC_DIGIT_MAP = str.maketrans(<Arabic-indic digits and separators>, "0123456789..")
ARABIC_DIGIT_MAP(c) ==
    CASE c = "ar0" -> "0" [] c = "ar1" -> "1" [] c = "ar2" -> "2" [] c = "ar3" -> "3"
      [] c = "ar4" -> "4" [] c = "ar5" -> "5" [] c = "ar6" -> "6" [] c = "ar7" -> "7"
      [] c = "ar8" -> "8" [] c = "ar9" -> "9" [] c = "ar." -> "." [] c = "ar," -> "."
      [] OTHER -> c

\* normalize_numbers on a str: translate, then drop ',' and ' '
normalize_numbers(s) ==
    LET translated == [i \in 1..Len(s) |-> ARABIC_DIGIT_MAP(s[i])]
        Alphabet   == { translated[i] : i \in 1..Len(translated) }
    IN  FilterChars(translated, Alphabet \ {",", SP})

RECURSIVE IntVal(_)
IntVal(ds) == IF ds = << >> THEN 0 ELSE IntVal(SubSeq(ds, 1, Len(ds) - 1)) * 10 + DigitVal(ds[Len(ds)])

CountChar(s, c) == Cardinality({ i \in 1..Len(s) : s[i] = c })

\* float(cleaned) for a string of digits and '.': a ValueError when there is
\* more than one '.' or no digit.  The value is counted in hundredths.
FloatOf(cleaned) ==
    LET dots == CountChar(cleaned, ".")
        dot  == IF dots = 0 THEN Len(cleaned) + 1
                ELSE CHOOSE i \in 1..Len(cleaned) : cleaned[i] = "."
        ip   == Slice(cleaned, 1, dot - 1)
        fp   == Slice(cleaned, dot + 1, Len(cleaned))
        f2   == SubSeq(fp \o <<"0", "0">>, 1, 2)
    IN  IF dots > 1 \/ Len(ip) + Len(fp) = 0 THEN Raise("ValueError")
        ELSE Return(Some(IntVal(ip) * 100 + IntVal(f2)))

\* mutant: the ValueError of float() leaves the function
CatchValueError_Uncaught(r) == r

\* try: ... except ValueError: pass; return None
CatchValueError(r) == IF r.k = "raise" THEN Return(None) ELSE r

\* lines 54-62 for the normalized text
CleanedFloat(cleaned) ==
    IF cleaned # << >> THEN CatchValueError(FloatOf(cleaned)) ELSE Return(None)

\* lines 50-62 for the normalized text
NormalizedFloat(normalized) ==
    IF normalized = << >> THEN Return(None)
    ELSE CleanedFloat(FilterChars(normalized, WesternDigits \cup {"."}))

\* the call extract_number(x) for x None, a number or a str, with its outcome
ExtractNumberCall(x) ==
    IF x.t = "null" THEN Return(None) ELSE NormalizedFloat(normalize_numbers(StrOf(x)))

\* extract_number on a str: the value returned
extract_number(s) == ExtractNumberCall(JStr(s)).v

(***************************************************************************)
(* Data model (src/ai.py, InvoiceItem and InvoiceData)                     *)
(***************************************************************************)
\* tax_rate is Optional[Any]: null, a str or a number
TaxNone == [k |-> "none", s |-> << >>, n |-> 0]

TaxStr(s) == [k |-> "str", s |-> s, n |-> 0]

TaxNum(n) == [k |-> "num", s |-> << >>, n |-> n]

\* InvoiceItem(): every field defaults to None
DefaultItem ==
    [description |-> None, quantity |-> None, unit_price |-> None, amount |-> None,
     discount |-> None, line_subtotal |-> None, tax_rate |-> TaxNone,
     tax_amount |-> None, line_total |-> None]

\* InvoiceData(): the fields the modelled stages read or write; the other header
\* fields keep the default None and are carried along unchanged
DefaultInvoice ==
    [electronic_invoice_number |-> None, seller_invoice_number |-> None,
     invoice_number |-> None, buyer_name |-> None, customer_name |-> None,
     items |-> << >>, total_discount |-> None, grand_total |-> None,
     subtotal |-> None, total_tax |-> None]

\* Model(**kw): the defaults overridden by the keyword arguments given
Construct(defaults, kw) ==
    [f \in DOMAIN defaults |-> IF f \in DOMAIN kw THEN kw[f] ELSE defaults[f]]

InvoiceItem(kw) == Construct(DefaultItem, kw)

InvoiceData(kw) == Construct(DefaultInvoice, kw)

ItemNumericFields ==
    {"quantity", "unit_price", "amount", "discount", "line_subtotal", "tax_amount",
     "line_total"}

TotalFields == {"subtotal", "total_tax", "grand_total", "total_discount"}

(***************************************************************************)
(* _clean_item_description (src/ai.py)                                     *)
(***************************************************************************)
\* length of the longest suffix of tok made of digits: group 2 of
\* re.match(r"^(.*?)(\d+)$", tok); \d matches the digits of every script
RECURSIVE TrailingDigits(_)
TrailingDigits(tok) ==
    IF tok # << >> /\ IsDigitChar(tok[Len(tok)])
    THEN 1 + TrailingDigits(SubSeq(tok, 1, Len(tok) - 1))
    ELSE 0

\* int(digits): Python's int accepts the digits of every script
IntOfDigits(ds) == IntVal([i \in 1..Len(ds) |-> ARABIC_DIGIT_MAP(ds[i])])

\* step 1: the row index glued to (or standing as) the last token
StripTrailingIndex(parts) ==
    LET last == parts[Len(parts)]
        k    == TrailingDigits(last)
        core == SubSeq(last, 1, Len(last) - k)
        idx  == IntOfDigits(SubSeq(last, Len(last) - k + 1, Len(last)))
    IN  IF k > 0 /\ 1 <= idx /\ idx <= 9
        THEN DropEmpty([parts EXCEPT ![Len(parts)] = core])
        ELSE parts

\* length of group 1 of re.match(r"^([0-9\.,]+)(.+)$", tok), 0 when no match:
\* the greedy run of [0-9.,], shortened by one when it is the whole token
RECURSIVE LeadingNumLen(_)
LeadingNumLen(tok) ==
    IF tok # << >> /\ Head(tok) \in WesternDigits \cup {".", ","}
    THEN 1 + LeadingNumLen(Tail(tok))
    ELSE 0

QuantityPrefixLen(tok) ==
    LET run == LeadingNumLen(tok)
    IN  IF run = Len(tok) THEN run - 1 ELSE run

\* the Python comparison abs(a - b) <= 0.01, in hundredths
WithinTol(a, b) == Abs(a - b) <= 1

\* step 2: the quantity duplicated as a prefix of the first token
StripQuantityPrefix(parts, quantity) ==
    LET first == parts[1]
        k     == QuantityPrefixLen(first)
        num   == extract_number(SubSeq(first, 1, k))
        rest  == SubSeq(first, k + 1, Len(first))
    IN  IF k > 0 /\ ~IsNone(num) /\ WithinTol(Val(num), Val(quantity))
        THEN DropEmpty([parts EXCEPT ![1] = rest])
        ELSE parts

_clean_item_description(description, quantity) ==
    IF IsNone(description) \/ Val(description) = << >> THEN description
    ELSE LET s == Strip(Val(description))
         IN  IF s = << >> THEN description
             ELSE LET parts0  == Split(s)
                      parts1  == IF parts0 # << >> THEN StripTrailingIndex(parts0)
                                 ELSE parts0
                      parts2  == IF ~IsNone(quantity) /\ parts1 # << >>
                                 THEN StripQuantityPrefix(parts1, quantity)
                                 ELSE parts1
                      cleaned == Strip(Join(parts2))
                 IN  IF cleaned # << >> THEN Some(cleaned) ELSE description

(***************************************************************************)
(* Line-Item Completer: _post_process_invoice_data (src/ai.py)             *)
(***************************************************************************)
\* lines 1181-1193
CleanTaxRate(tax_rate) ==
    IF tax_rate.k = "str"
    THEN IF Contains(Lower(tax_rate.s), <<"e", "x", "e", "m", "p", "t">>)
            \/ Contains(tax_rate.s, <<"ar_m", "ar_e", "ar_f", "ar_a">>)
         THEN TaxStr(<<"e", "x", "e", "m", "p", "t">>)
         ELSE LET cleaned_rate == extract_number(tax_rate.s)
              IN  IF ~IsNone(cleaned_rate) THEN TaxNum(Val(cleaned_rate)) ELSE tax_rate
    ELSE tax_rate

\* float(x) of a float keeps its value
Float(x) == x

\* lines 1195-1209
CoerceItemFloats(it) ==
    [f \in DOMAIN it |->
        IF f \in ItemNumericFields /\ ~IsNone(it[f]) THEN Some(Float(Val(it[f])))
        ELSE it[f]]

\* quantity * unit_price in hundredths
Times(a, b) == (a * b) \div 100

\* item.discount or 0
DiscountOrZero(it) == IF IsNone(it.discount) THEN 0 ELSE Val(it.discount)

\* mutant: the amount is recomputed even when it was printed
BackfillAmount_Overwrite(it) ==
    IF ~IsNone(it.quantity) /\ ~IsNone(it.unit_price)
    THEN [it EXCEPT !.amount = Some(Times(Val(it.quantity), Val(it.unit_price)))]
    ELSE it

\* lines 1211-1213
BackfillAmount(it) ==
    IF IsNone(it.amount) /\ ~IsNone(it.quantity) /\ ~IsNone(it.unit_price)
    THEN [it EXCEPT !.amount = Some(Times(Val(it.quantity), Val(it.unit_price)))]
    ELSE it

\* lines 1215-1217
BackfillLineSubtotal(it) ==
    IF IsNone(it.line_subtotal) /\ ~IsNone(it.quantity) /\ ~IsNone(it.unit_price)
    THEN [it EXCEPT !.line_subtotal = Some(Times(Val(it.quantity), Val(it.unit_price)))]
    ELSE it

\* mutant: the discount is not subtracted
BackfillLineTotal_NoDiscount(it) ==
    IF IsNone(it.line_total) /\ ~IsNone(it.line_subtotal)
    THEN IF ~IsNone(it.tax_amount)
         THEN [it EXCEPT !.line_total = Some(Val(it.line_subtotal) + Val(it.tax_amount))]
         ELSE [it EXCEPT !.line_total = Some(Val(it.line_subtotal))]
    ELSE it

\* lines 1219-1224
BackfillLineTotal(it) ==
    IF IsNone(it.line_total) /\ ~IsNone(it.line_subtotal)
    THEN IF ~IsNone(it.tax_amount)
         THEN [it EXCEPT !.line_total =
                  Some(Val(it.line_subtotal) - DiscountOrZero(it) + Val(it.tax_amount))]
         ELSE [it EXCEPT !.line_total = Some(Val(it.line_subtotal) - DiscountOrZero(it))]
    ELSE it

\* the body of the loop over invoice_data.items, lines 1177-1224
CompleteItem(it) ==
    LET a == [it EXCEPT !.description = _clean_item_description(it.description, it.quantity)]
        b == [a EXCEPT !.tax_rate = CleanTaxRate(a.tax_rate)]
        c == CoerceItemFloats(b)
    IN  BackfillLineTotal(BackfillLineSubtotal(BackfillAmount(c)))

\* sum(item.<f> for item in items if item.<f> is not None)
RECURSIVE SumPresent(_, _)
SumPresent(items, f) ==
    IF items = << >> THEN 0
    ELSE (IF IsNone(Head(items)[f]) THEN 0 ELSE Val(Head(items)[f]))
         + SumPresent(Tail(items), f)

\* mutant: the gate lets a zero sum through
BackfillSubtotal_ZeroPasses(r) ==
    LET calculated_subtotal == SumPresent(r.items, "line_subtotal")
    IN  IF IsNone(r.subtotal) /\ calculated_subtotal >= 0
        THEN [r EXCEPT !.subtotal = Some(calculated_subtotal)]
        ELSE r

\* lines 1227-1233
BackfillSubtotal(r) ==
    LET calculated_subtotal == SumPresent(r.items, "line_subtotal")
    IN  IF IsNone(r.subtotal) /\ calculated_subtotal > 0
        THEN [r EXCEPT !.subtotal = Some(calculated_subtotal)]
        ELSE r

\* lines 1235-1241
BackfillTotalTax(r) ==
    LET calculated_tax == SumPresent(r.items, "tax_amount")
    IN  IF IsNone(r.total_tax) /\ calculated_tax > 0
        THEN [r EXCEPT !.total_tax = Some(calculated_tax)]
        ELSE r

\* mutant: with only total_tax present the sum of the line totals is taken
\* without the gate
BackfillGrandTotal_Ungated(r) ==
    IF ~IsNone(r.grand_total) THEN r
    ELSE IF ~IsNone(r.subtotal) /\ ~IsNone(r.total_tax)
    THEN [r EXCEPT !.grand_total = Some(Val(r.subtotal) + Val(r.total_tax))]
    ELSE IF ~IsNone(r.subtotal)
    THEN [r EXCEPT !.grand_total = Some(Val(r.subtotal))]
    ELSE IF ~IsNone(r.total_tax)
    THEN [r EXCEPT !.grand_total = Some(SumPresent(r.items, "line_total"))]
    ELSE r

\* lines 1243-1255
BackfillGrandTotal(r) ==
    IF ~IsNone(r.grand_total) THEN r
    ELSE IF ~IsNone(r.subtotal) /\ ~IsNone(r.total_tax)
    THEN [r EXCEPT !.grand_total = Some(Val(r.subtotal) + Val(r.total_tax))]
    ELSE IF ~IsNone(r.subtotal)
    THEN [r EXCEPT !.grand_total = Some(Val(r.subtotal))]
    ELSE IF ~IsNone(r.total_tax)
    THEN LET calculated_total == SumPresent(r.items, "line_total")
         IN  IF calculated_total > 0
             THEN [r EXCEPT !.grand_total = Some(calculated_total)]
             ELSE r
    ELSE r

\* lines 1257-1265
CoerceTotalFloats(r) ==
    [f \in DOMAIN r |->
        IF f \in TotalFields /\ ~IsNone(r[f]) THEN Some(Float(Val(r[f]))) ELSE r[f]]

_post_process_invoice_data(invoice_data) ==
    LET completed == [invoice_data EXCEPT
                         !.items = [i \in 1..Len(invoice_data.items) |->
                                       CompleteItem(invoice_data.items[i])]]
    IN  CoerceTotalFloats(BackfillGrandTotal(BackfillTotalTax(BackfillSubtotal(completed))))

\* truth value of an Optional[str]: None and "" are falsy
Truthy(o) == ~IsNone(o) /\ Val(o) # << >>

\* a or b
Or(a, b) == IF Truthy(a) THEN a ELSE b

(***************************************************************************)
(* Description Aligner (src/ai.py)                                         *)
(***************************************************************************)
\* max_window = 3
max_window == 3

\* the five numbers the numeric anchor looks for, in order
TargetNums(item) ==
    <<Val(item.quantity), Val(item.unit_price), Val(item.amount), Val(item.discount),
      Val(item.line_total)>>

HaveAllNumbers(item) ==
    /\ ~IsNone(item.quantity) /\ ~IsNone(item.unit_price) /\ ~IsNone(item.amount)
    /\ ~IsNone(item.discount) /\ ~IsNone(item.line_total)

\* almost_equal(a, b, tol=0.01)
almost_equal(a, b) == WithinTol(a, b)

\* the indexes (1-based) of the tokens for which extract_number is not None
RECURSIVE NumPositionsFrom(_, _)
NumPositionsFrom(tokens, idx) ==
    IF idx > Len(tokens) THEN << >>
    ELSE IF ~IsNone(extract_number(tokens[idx]))
    THEN <<idx>> \o NumPositionsFrom(tokens, idx + 1)
    ELSE NumPositionsFrom(tokens, idx + 1)

\* all(almost_equal(slice_positions[i][1], target_nums[i]) for i in range(5))
SliceMatches(tokens, num_positions, start, target_nums) ==
    \A i \in 1..Len(target_nums) :
        almost_equal(Val(extract_number(tokens[num_positions[start + i - 1]])),
                     target_nums[i])

\* mutant: the first matched number is taken into the description
SliceDescription_OffByOne(tokens, num_positions, start) ==
    Strip(Join(SubSeq(tokens, 1, num_positions[start])))

\* " ".join(tokens[:first_num_token_idx]).strip()
SliceDescription(tokens, num_positions, start) ==
    Strip(Join(SubSeq(tokens, 1, num_positions[start] - 1)))

\* the inner loop over the slices of one window (lines 595-609): the
\* description of the first matching slice that leaves a non-empty
\* description, "" when there is none
WindowDescription(tokens, target_nums) ==
    LET num_positions == NumPositionsFrom(tokens, 1)
        last  == Len(num_positions) - Len(target_nums) + 1
        Hit(start) ==
            /\ SliceMatches(tokens, num_positions, start, target_nums)
            /\ SliceDescription(tokens, num_positions, start) # << >>
    IN  IF \E start \in 1..last : Hit(start)
        THEN SliceDescription(tokens, num_positions,
                 CHOOSE start \in 1..last :
                     Hit(start) /\ \A earlier \in 1..(start - 1) : ~Hit(earlier))
        ELSE << >>

\* " ".join(lines[start_line:end_line]).strip().split(), 0-based start_line
WindowTokens(ls, start_line, window_size) ==
    Split(Strip(Join(SubSeq(ls, start_line + 1, start_line + window_size))))

\* the loops over start_line and window_size (lines 578-609), entered at
\* (start_line, window_size): the first non-empty description, else None
RECURSIVE NumericAnchorFrom(_, _, _, _)
NumericAnchorFrom(ls, target_nums, start_line, window_size) ==
    IF start_line >= Len(ls) THEN None
    ELSE IF window_size > max_window \/ start_line + window_size > Len(ls)
    THEN NumericAnchorFrom(ls, target_nums, start_line + 1, 1)
    ELSE LET description ==
                 WindowDescription(WindowTokens(ls, start_line, window_size), target_nums)
         IN  IF description # << >> THEN Some(description)
             ELSE NumericAnchorFrom(ls, target_nums, start_line, window_size + 1)

\* tokens_no_numbers(s), as a set
TokensNoNumbers(s) ==
    LET parts == Split(s)
    IN  { parts[i] : i \in { j \in 1..Len(parts) : IsNone(extract_number(parts[j])) } }

\* mutant: a line qualifies only when it holds exactly the required tokens
RECURSIVE BagOfWordsFrom_ExactSet(_, _, _)
BagOfWordsFrom_ExactSet(ls, target_set, k) ==
    IF k > Len(ls) THEN None
    ELSE LET line_set == TokensNoNumbers(ls[k])
         IN  IF line_set # {} /\ target_set = line_set THEN Some(Strip(ls[k]))
             ELSE BagOfWordsFrom_ExactSet(ls, target_set, k + 1)

\* the loop over the lines of the bag-of-words fallback (lines 621-630)
RECURSIVE BagOfWordsFrom(_, _, _)
BagOfWordsFrom(ls, target_set, k) ==
    IF k > Len(ls) THEN None
    ELSE LET line_set == TokensNoNumbers(ls[k])
         IN  IF line_set # {} /\ target_set \subseteq line_set THEN Some(Strip(ls[k]))
             ELSE BagOfWordsFrom(ls, target_set, k + 1)

\* lines 611-631
BagOfWords(ls, item) ==
    LET original_desc == IF IsNone(item.description) THEN << >>
                         ELSE Strip(Val(item.description))
        target_set    == TokensNoNumbers(original_desc)
    IN  IF original_desc # << >> /\ target_set # {}
        THEN BagOfWordsFrom(ls, target_set, 1)
        ELSE None

_find_description_from_lines_for_item(ls, item) ==
    LET anchored == IF HaveAllNumbers(item)
                    THEN NumericAnchorFrom(ls, TargetNums(item), 0, 1)
                    ELSE None
    IN  IF ~IsNone(anchored) THEN anchored ELSE BagOfWords(ls, item)

\* mutant: the description is assigned also when no line was found
AlignItem_Unguarded(ls, item) ==
    [item EXCEPT !.description = _find_description_from_lines_for_item(ls, item)]

\* the body of the loop of _align_descriptions_with_pdf_lines (lines 644-647)
AlignItem(ls, item) ==
    LET desc == _find_description_from_lines_for_item(ls, item)
    IN  IF Truthy(desc) THEN [item EXCEPT !.description = desc] ELSE item

_align_descriptions_with_pdf_lines(invoice_data, ls) ==
    IF ls = << >> \/ invoice_data.items = << >> THEN invoice_data
    ELSE [invoice_data EXCEPT
             !.items = [i \in 1..Len(invoice_data.items) |->
                           AlignItem(ls, invoice_data.items[i])]]

(***************************************************************************)
(* Validity filter: _is_valid_extraction (src/ai.py)                       *)
(***************************************************************************)
fake_patterns ==
    { <<"I", "N", "V", "1", "2", "3">>,
      <<"1", "2", "3", "4", "5">>,
      <<"X", "Y", "Z">>,
      <<"C", "o", "r", "p", "o", "r", "a", "t", "i", "o", "n">>,
      <<"C", "o", "m", "p", "a", "n", "y">>,
      <<"T", "e", "s", "t">>,
      <<"S", "a", "m", "p", "l", "e">>,
      <<"E", "x", "a", "m", "p", "l", "e">>,
      <<"D", "e", "m", "o">>,
      <<"P", "l", "a", "c", "e", "h", "o", "l", "d", "e", "r">> }

\* any(pattern.lower() in str(x).lower() for pattern in fake_patterns)
HasFakePattern(x) ==
    \E pattern \in fake_patterns : Contains(Lower(x), Lower(pattern))

\* mutant: the earlier, stricter rule that also rejects a record with neither
\* an identifier nor a buyer name even when it has items or a grand total
_is_valid_extraction_Strict(invoice_data) ==
    LET invoice_num == Or(invoice_data.electronic_invoice_number,
                          Or(invoice_data.seller_invoice_number,
                             invoice_data.invoice_number))
        buyer_name  == Or(invoice_data.buyer_name, invoice_data.customer_name)
    IN  IF Truthy(invoice_num) /\ HasFakePattern(Val(invoice_num)) THEN FALSE
        ELSE IF Truthy(buyer_name) /\ HasFakePattern(Val(buyer_name)) THEN FALSE
        ELSE Truthy(invoice_num) \/ Truthy(buyer_name)

_is_valid_extraction(invoice_data) ==
    LET invoice_num     == Or(invoice_data.electronic_invoice_number,
                              Or(invoice_data.seller_invoice_number,
                                 invoice_data.invoice_number))
        buyer_name      == Or(invoice_data.buyer_name, invoice_data.customer_name)
        has_items       == invoice_data.items # << >>
        has_grand_total == ~IsNone(invoice_data.grand_total)
    IN  IF Truthy(invoice_num) /\ HasFakePattern(Val(invoice_num)) THEN FALSE
        ELSE IF Truthy(buyer_name) /\ HasFakePattern(Val(buyer_name)) THEN FALSE
        ELSE IF ~(Truthy(invoice_num) \/ Truthy(buyer_name) \/ has_items
                  \/ has_grand_total)
        THEN FALSE
        ELSE TRUE

\* the pipeline variables while a single stage is studied on its own
PipelineIdle ==
    /\ fileKind = "none" /\ image = "none" /\ textOut = None /\ visionOut = None
    /\ textRet = None /\ visionRet = None /\ result = None /\ calls = << >>

\* no inference client is looked at while a stage or one document is studied
ClientIdle == _client = None /\ environ = None /\ clients = 0 /\ proc = << >>

\* no upload request is under way while a stage or one document is studied
BatchIdle ==
    /\ files = << >> /\ file_no = 0 /\ all_rows = << >>
    /\ processed_count = 0 /\ failed_files = << >>

(***************************************************************************)
(* Input sets of the Line-Item Completer                                   *)
(***************************************************************************)
\* the longest item list drawn
MaxItems == 2

\* words used in descriptions and source lines
W_ab == <<"a", "b">>

W_cd == <<"c", "d">>

\* item descriptions as the inference service may return them
DescPool ==
    { Join(<<W_ab>>),                            \* ab
      Join(<<W_ab, <<"1">>, <<"2">>>>),           \* ab 1 2
      Join(<<W_ab \o <<"1">>>>),                  \* ab1
      Join(<<<<"2">> \o W_ab, W_cd>>),            \* 2ab cd
      Join(<<<<"6">>, W_ab, <<"2", "6">>, <<"8">>>>), \* 6 ab 26 8
      <<"7">>,
      << >> }

TaxRatePool ==
    { TaxStr(<<"E", "x", "e", "m", "p", "t">>),
      TaxStr(<<"ar_m", "ar_e", "ar_f", "ar_a">>),
      TaxStr(<<"1", "6", "%">>),
      TaxStr(<<"n", "/", "a">>),
      TaxNum(1600) }

\* items with quantity 2 and unit price 50.00 and every combination of the
\* other monetary fields being printed or absent (the printed amount, subtotal
\* and total do not agree with quantity x unit_price)
PricedItems ==
    { InvoiceItem([quantity |-> Some(200), unit_price |-> Some(5000), amount |-> a,
                   discount |-> d, line_subtotal |-> ls, tax_amount |-> t,
                   line_total |-> lt]) :
        a \in {None, Some(7000)}, d \in {None, Some(0), Some(1000)},
        ls \in {None, Some(6000)}, t \in {None, Some(500)},
        lt \in {None, Some(3000)} }

\* items without a usable quantity x unit_price
UnpricedItems ==
    { InvoiceItem([quantity |-> q, line_subtotal |-> ls, tax_amount |-> t,
                   line_total |-> lt]) :
        q \in {None, Some(200)}, ls \in {None, Some(0), Some(10000), Some(-10000)},
        t \in {None, Some(500)}, lt \in {None, Some(3000)} }

DescribedItems ==
    { InvoiceItem([description |-> Some(d), quantity |-> q]) :
        d \in DescPool, q \in {None, Some(200)} }

TaxRateItems == { InvoiceItem([tax_rate |-> tr]) : tr \in TaxRatePool }

\* the first item of a drawn list
FirstItemPool == PricedItems \cup UnpricedItems \cup DescribedItems \cup TaxRateItems

\* the items after the first
RestItemPool ==
    { InvoiceItem([line_subtotal |-> Some(5000)]),
      InvoiceItem([line_subtotal |-> Some(0)]),
      InvoiceItem([quantity |-> Some(100), unit_price |-> Some(2000),
                   discount |-> Some(500), tax_amount |-> Some(300)]),
      InvoiceItem([tax_amount |-> Some(200), line_total |-> Some(4000)]),
      InvoiceItem([description |-> Some(Join(<<W_cd, <<"3">>, <<"4">>>>))]) }

ItemLists ==
    { << >> } \cup
    { <<f>> \o r : f \in FirstItemPool, r \in SeqsUpTo(RestItemPool, MaxItems - 1) }

TotalsPool ==
    { [subtotal |-> st, total_tax |-> tt, grand_total |-> gt, total_discount |-> None] :
        st \in {None, Some(4000)}, tt \in {None, Some(700)}, gt \in {None, Some(9900)} }
    \cup
    { [subtotal |-> None, total_tax |-> None, grand_total |-> None,
       total_discount |-> Some(300)],
      [subtotal |-> Some(4000), total_tax |-> Some(700), grand_total |-> Some(9900),
       total_discount |-> Some(300)] }

CompleterInputs ==
    { InvoiceData([items |-> its, subtotal |-> t.subtotal, total_tax |-> t.total_tax,
                   grand_total |-> t.grand_total, total_discount |-> t.total_discount]) :
        its \in ItemLists, t \in TotalsPool }

(***************************************************************************)
(* Specification SpecComplete: _post_process_invoice_data applied to a     *)
(* record, then applied again to its own output                            *)
(***************************************************************************)
InitComplete ==
    /\ ClientIdle /\ BatchIdle
    /\ pc = "raw"
    /\ inv \in { Some(r) : r \in CompleterInputs }
    /\ inv0 = inv
    /\ inv1 = None
    /\ lines = None /\ PipelineIdle /\ arg = None /\ out = None

CompleterApply ==
    /\ pc = "raw"
    /\ inv' = Some(_post_process_invoice_data(Val(inv)))
    /\ inv1' = inv'
    /\ pc' = "once"
    /\ UNCHANGED <<clientVars, batchVars, inv0, lines, pipeVars, arg, out>>

CompleterReapply ==
    /\ pc = "once"
    /\ inv' = Some(_post_process_invoice_data(Val(inv)))
    /\ pc' = "twice"
    /\ UNCHANGED <<clientVars, batchVars, inv0, inv1, lines, pipeVars, arg, out>>

NextComplete == CompleterApply \/ CompleterReapply

SpecComplete == InitComplete /\ [][NextComplete]_vars

(***************************************************************************)
(* Specification SpecValid: _is_valid_extraction applied to a record       *)
(***************************************************************************)
IdPool ==
    { None, Some(<< >>),
      Some(<<"S", "a", "m", "p", "l", "e", "1", "2", "3">>),
      Some(<<"E", "I", "N", "7">>),
      Some(<<"d", "E", "M", "O">>) }

SellerNoPool == { None, Some(<<"1", "2", "3", "4", "5", "6">>), Some(<<"8">>) }

LegacyNoPool == { None, Some(<<"x", "y", "z", "9">>) }

BuyerPool ==
    { None, Some(<< >>), Some(W_ab), Some(<<"a", "b", " ", "C", "O", "M", "P", "A", "N", "Y">>) }

CustomerPool == { None, Some(<<"T", "e", "s", "t", "e", "r">>), Some(W_cd) }

ValidityInputs ==
    { InvoiceData([electronic_invoice_number |-> e, seller_invoice_number |-> sn,
                   invoice_number |-> n, buyer_name |-> b, customer_name |-> c,
                   items |-> its, grand_total |-> g]) :
        e \in IdPool, sn \in SellerNoPool, n \in LegacyNoPool, b \in BuyerPool,
        c \in CustomerPool,
        its \in { << >>, <<InvoiceItem([description |-> Some(W_ab)])>> },
        g \in { None, Some(7500) } }

InitValid ==
    /\ ClientIdle /\ BatchIdle
    /\ pc = "raw"
    /\ inv \in { Some(r) : r \in ValidityInputs }
    /\ inv0 = inv
    /\ inv1 = None
    /\ lines = None /\ PipelineIdle /\ arg = None /\ out = None

Validate ==
    /\ pc = "raw"
    /\ out' = Some(_is_valid_extraction(Val(inv)))
    /\ pc' = "checked"
    /\ UNCHANGED <<clientVars, batchVars, inv, inv0, inv1, lines, pipeVars, arg>>

NextValid == Validate

SpecValid == InitValid /\ [][NextValid]_vars

(***************************************************************************)
(* Input sets of the Description Aligner                                   *)
(***************************************************************************)
\* the longest list of source lines drawn
MaxLines == 2

\* description words of the example row (stand-ins for the Arabic words)
W_qt == <<"q", "t">>

W_mn == <<"m", "n">>

W_a == <<"a">>

W_ef == <<"e", "f">>

W_zz == <<"z", "z">>

T_3 == <<"3">>

T_10_00 == <<"1", "0", ".", "0", "0">>

T_30_00 == <<"3", "0", ".", "0", "0">>

T_0_00 == <<"0", ".", "0", "0">>

\* "3 qt mn a 10.00 30.00 0.00 30.00": the quantity, the description, then
\* unit price, amount, discount and line total
LineQuantityFirst == Join(<<T_3, W_qt, W_mn, W_a, T_10_00, T_30_00, T_0_00, T_30_00>>)

\* "qt mn a 3 10.00 30.00 0.00 30.00": the description, then the five numbers
LineDescriptionFirst == Join(<<W_qt, W_mn, W_a, T_3, T_10_00, T_30_00, T_0_00, T_30_00>>)

\* "ef 1 5 5 0 5": another table row
LineOtherRow == Join(<<W_ef, <<"1">>, <<"5">>, <<"5">>, <<"0">>, <<"5">>>>)

\* "ab cd": a line without numbers
LineWords == Join(<<W_ab, W_cd>>)

\* "cd  ab 7": two blanks between the words and a trailing row index
LineDoubleBlank == W_cd \o <<SP, SP>> \o W_ab \o <<SP, "7">>

\* what extract_pdf_text_lines yields: non-empty, trimmed lines
LinePool ==
    { LineQuantityFirst, LineDescriptionFirst, LineOtherRow, LineWords, LineDoubleBlank }

LineLists == SeqsUpTo(LinePool, MaxLines)

\* the most items of a record handed to the aligner or given back by an
\* inference call
MaxAlignItems == 1

\* quantity 3, unit price 10.00, amount 30.00, discount 0.00, line total 30.00
ExampleNumbers ==
    [quantity |-> Some(300), unit_price |-> Some(1000), amount |-> Some(3000),
     discount |-> Some(0), line_total |-> Some(3000)]

ExampleWords == Join(<<W_qt, W_mn, W_a>>)

\* items as the inference step may return them
AlignItems ==
    { InvoiceItem(ExampleNumbers),
      InvoiceItem(ExampleNumbers @@ [description |-> Some(ExampleWords)]),
      InvoiceItem(ExampleNumbers @@ [description |-> Some(W_zz)]),
      InvoiceItem([description |-> Some(Join(<<W_mn, W_qt>>))]),
      InvoiceItem([description |-> Some(W_zz)]),
      InvoiceItem([description |-> Some(W_ab)]),
      InvoiceItem([description |-> Some(Join(<<W_cd, W_ab>>)), quantity |-> Some(300)]),
      InvoiceItem([description |-> Some(Join(<<W_ef, <<"5">>>>)), quantity |-> Some(100),
                   unit_price |-> Some(500), amount |-> Some(500), discount |-> Some(0),
                   line_total |-> Some(500)]) }

AlignInputs ==
    { InvoiceData([items |-> its]) : its \in SeqsUpTo(AlignItems, MaxAlignItems) }

(***************************************************************************)
(* Specification SpecAlign: _align_descriptions_with_pdf_lines applied to  *)
(* a record and a list of source lines                                     *)
(***************************************************************************)
InitAlign ==
    /\ ClientIdle /\ BatchIdle
    /\ pc = "raw"
    /\ inv \in { Some(r) : r \in AlignInputs }
    /\ inv0 = inv
    /\ inv1 = None
    /\ lines \in { Some(ls) : ls \in LineLists }
    /\ PipelineIdle /\ arg = None /\ out = None

AlignApply ==
    /\ pc = "raw"
    /\ inv' = Some(_align_descriptions_with_pdf_lines(Val(inv), Val(lines)))
    /\ pc' = "aligned"
    /\ UNCHANGED <<clientVars, batchVars, inv0, inv1, lines, pipeVars, arg, out>>

NextAlign == AlignApply

SpecAlign == InitAlign /\ [][NextAlign]_vars

(***************************************************************************)
(* Row flattening (src/mapping.py)                                         *)
(***************************************************************************)
\* a cell of an output row holding a str
StrCell(s) == [k |-> "str", s |-> s, n |-> 0]

\* a cell of an output row holding a number
NumCell(n) == [k |-> "num", s |-> << >>, n |-> n]

\* x or "" for an Optional[str]
StrOrEmpty(o) == IF Truthy(o) THEN StrCell(Val(o)) ELSE StrCell(<< >>)

\* x if x is not None else d
NumOrDefault(o, d) == IF IsNone(o) THEN d ELSE NumCell(Val(o))

\* header_data, for the header fields of the record that are modelled
header_data(invoice_data) ==
    [electronic_invoice_number |->
         StrOrEmpty(Or(invoice_data.electronic_invoice_number, invoice_data.invoice_number)),
     seller_invoice_number |-> StrOrEmpty(invoice_data.seller_invoice_number),
     buyer_name |-> StrOrEmpty(Or(invoice_data.buyer_name, invoice_data.customer_name))]

\* row["amount"]
RowAmount(item) ==
    IF ~IsNone(item.amount) THEN Val(item.amount)
    ELSE IF ~IsNone(item.quantity) /\ ~IsNone(item.unit_price)
    THEN Times(Val(item.quantity), Val(item.unit_price))
    ELSE IF ~IsNone(item.line_subtotal) THEN Val(item.line_subtotal) ELSE 0

\* row["line subtotal after discount"]
RowLineSubtotal(item) ==
    IF ~IsNone(item.line_subtotal) THEN Val(item.line_subtotal)
    ELSE RowAmount(item) - DiscountOrZero(item)

\* row["line total after tax"]
RowLineTotal(item) ==
    IF ~IsNone(item.line_total) THEN Val(item.line_total)
    ELSE RowLineSubtotal(item) + (IF IsNone(item.tax_amount) THEN 0 ELSE Val(item.tax_amount))

\* mutant: the invoice totals are written on every row
ItemRow_TotalsOnEveryRow(invoice_data, idx) ==
    LET item == invoice_data.items[idx]
    IN  header_data(invoice_data) @@
        [description   |-> StrOrEmpty(item.description),
         quantity      |-> NumOrDefault(item.quantity, NumCell(0)),
         unit_price    |-> NumOrDefault(item.unit_price, NumCell(0)),
         amount        |-> NumCell(RowAmount(item)),
         discount      |-> NumCell(DiscountOrZero(item)),
         line_subtotal |-> NumCell(RowLineSubtotal(item)),
         tax_rate      |-> IF item.tax_rate = TaxNone THEN NumCell(0) ELSE item.tax_rate,
         tax_amount    |-> NumOrDefault(item.tax_amount, NumCell(0)),
         line_total    |-> NumCell(RowLineTotal(item)),
         grand_total   |-> NumOrDefault(invoice_data.grand_total, StrCell(<< >>)),
         total_tax     |-> NumOrDefault(invoice_data.total_tax, StrCell(<< >>))]

\* the row of the item at position idx (1-based here, 0-based in the source)
ItemRow(invoice_data, idx) ==
    LET item == invoice_data.items[idx]
    IN  header_data(invoice_data) @@
        [description   |-> StrOrEmpty(item.description),
         quantity      |-> NumOrDefault(item.quantity, NumCell(0)),
         unit_price    |-> NumOrDefault(item.unit_price, NumCell(0)),
         amount        |-> NumCell(RowAmount(item)),
         discount      |-> NumCell(DiscountOrZero(item)),
         line_subtotal |-> NumCell(RowLineSubtotal(item)),
         tax_rate      |-> IF item.tax_rate = TaxNone THEN NumCell(0) ELSE item.tax_rate,
         tax_amount    |-> NumOrDefault(item.tax_amount, NumCell(0)),
         line_total    |-> NumCell(RowLineTotal(item)),
         grand_total   |-> IF idx = 1 THEN NumOrDefault(invoice_data.grand_total, StrCell(<< >>))
                           ELSE StrCell(<< >>),
         total_tax     |-> IF idx = 1 THEN NumOrDefault(invoice_data.total_tax, StrCell(<< >>))
                           ELSE StrCell(<< >>)]

\* the single row of an invoice without items
EmptyRow(invoice_data) ==
    header_data(invoice_data) @@
    [description   |-> StrCell(<< >>),
     quantity      |-> NumCell(0),
     unit_price    |-> NumCell(0),
     amount        |-> NumCell(0),
     discount      |-> NumCell(0),
     line_subtotal |-> NumCell(0),
     tax_rate      |-> NumCell(0),
     tax_amount    |-> NumCell(0),
     line_total    |-> NumCell(0),
     grand_total   |-> NumOrDefault(invoice_data.grand_total, NumCell(0)),
     total_tax     |-> NumOrDefault(invoice_data.total_tax, NumCell(0))]

\* mutant: the rows are emitted last item first
create_invoice_rows_LastFirst(invoice_data) ==
    IF Len(invoice_data.items) > 0
    THEN [idx \in 1..Len(invoice_data.items) |->
             ItemRow(invoice_data, Len(invoice_data.items) + 1 - idx)]
    ELSE <<EmptyRow(invoice_data)>>

create_invoice_rows(invoice_data) ==
    IF Len(invoice_data.items) > 0
    THEN [idx \in 1..Len(invoice_data.items) |-> ItemRow(invoice_data, idx)]
    ELSE <<EmptyRow(invoice_data)>>

(***************************************************************************)
(* Extraction entry points (src/ai.py)                                     *)
(***************************************************************************)
\* What one inference call can do: k = "ok" when the service answered with JSON
\* from which InvoiceData(**data) built rec; otherwise an exception, told apart
\* by the words its message holds ("other": none of the words looked for).
InferenceFailures == {"authentication", "rate limit", "quota", "other"}

InferenceFailed(kind) == [k |-> kind, rec |-> DefaultInvoice]

InferenceOk(rec) == [k |-> "ok", rec |-> rec]

\* mutant: the earlier fallback, which gave back a fixed sample invoice
_extract_with_ocr_FixedInvoice ==
    Some(InvoiceData([electronic_invoice_number |-> Some(<<"E", "I", "N", "1">>),
                      grand_total |-> Some(7500)]))

\* the disabled fallback: return None
_extract_with_ocr == None

_extract_with_ai_vision(outcome) ==
    IF outcome.k = "ok" THEN Return(Some(_post_process_invoice_data(outcome.rec)))
    ELSE IF outcome.k = "authentication"
    THEN Raise("Invalid or missing OpenAI API key. Please check your API key.")
    ELSE IF outcome.k = "rate limit"
    THEN Raise("OpenAI API rate limit exceeded. Please try again later.")
    ELSE IF outcome.k = "quota"
    THEN Raise("OpenAI API quota exceeded. Please check your account.")
    ELSE Return(None)

\* the body of extract_invoice_data_from_image once both strategies have
\* answered, changed to return the record of the vision call only when it
\* passes the validity filter
ImageResult_Validated(ai_result, ocr_result) ==
    IF ai_result.k = "raise" THEN Return(None)
    ELSE IF ~IsNone(ai_result.v) /\ _is_valid_extraction(Val(ai_result.v))
    THEN Return(ai_result.v)
    ELSE IF ~IsNone(ocr_result) /\ _is_valid_extraction(Val(ocr_result))
    THEN Return(ocr_result)
    ELSE Return(None)

\* mutant: the validity filter gates the record of the vision call too
extract_invoice_data_from_image_Validated(outcome) ==
    ImageResult_Validated(_extract_with_ai_vision(outcome), _extract_with_ocr)

\* the body of extract_invoice_data_from_image once both strategies have
\* answered: try: ... except Exception: return None
ImageResult(ai_result, ocr_result) ==
    IF ai_result.k = "raise" THEN Return(None)
    ELSE IF ~IsNone(ai_result.v) THEN Return(ai_result.v)
    ELSE IF ~IsNone(ocr_result) /\ _is_valid_extraction(Val(ocr_result))
    THEN Return(ocr_result)
    ELSE Return(None)

extract_invoice_data_from_image(outcome) ==
    ImageResult(_extract_with_ai_vision(outcome), _extract_with_ocr)

\* try: ... except Exception: return None
extract_invoice_data_from_text(outcome) ==
    IF outcome.k = "ok" THEN Return(Some(_post_process_invoice_data(outcome.rec)))
    ELSE Return(None)

\* if not base: return None; return _align_descriptions_with_pdf_lines(base, lines)
AlignBase(base, ls) ==
    IF IsNone(base.v) THEN Return(None)
    ELSE Return(Some(_align_descriptions_with_pdf_lines(Val(base.v), ls)))

extract_invoice_data_from_pdf_text_with_lines(outcome, ls) ==
    AlignBase(extract_invoice_data_from_text(outcome), ls)

(***************************************************************************)
(* Input sets of the per-document pipeline                                 *)
(***************************************************************************)
W_Sample123 == <<"S", "a", "m", "p", "l", "e", "1", "2", "3">>

W_EIN7 == <<"E", "I", "N", "7">>

\* items as an inference call may give them back
PipeItems ==
    { InvoiceItem(ExampleNumbers @@ [description |-> Some(W_zz)]),
      InvoiceItem([description |-> Some(Join(<<W_mn, W_qt>>))]),
      InvoiceItem([description |-> Some(W_zz)]),
      InvoiceItem([description |-> Some(W_ab)]) }

\* the records InvoiceData(**data) an inference call can give back
PipeRecords ==
    { InvoiceData([electronic_invoice_number |-> e, items |-> its]) :
        e \in {None, Some(W_Sample123), Some(W_EIN7)},
        its \in SeqsUpTo(PipeItems, MaxAlignItems) }

\* the text layers of the PDFs handed in
PipeLineLists ==
    SeqsUpTo({LineDescriptionFirst, LineOtherRow, LineWords, LineDoubleBlank}, MaxLines)

InferenceOutcomes ==
    { InferenceOk(r) : r \in PipeRecords } \cup { InferenceFailed(f) : f \in InferenceFailures }

(***************************************************************************)
(* Specification of the per-document pipeline: one call of                 *)
(* _process_single_invoice (src/app.py) in an initialised application, the *)
(* handler cut at its calls out to the PDF library and the inference       *)
(* service.                                                                *)
(***************************************************************************)
InitPipe ==
    /\ ClientIdle /\ BatchIdle
    /\ pc = "start"
    /\ fileKind \in {"pdf", "image", "other"}
    /\ inv = None /\ inv0 = None /\ inv1 = None /\ lines = None
    /\ image = "none" /\ textOut = None /\ visionOut = None
    /\ textRet = None /\ visionRet = None /\ result = None /\ calls = << >>
    /\ arg = None /\ out = None

\* lines = extract_pdf_text_lines(temp_file_path): the stripped non-empty lines
\* of the text layer, None when there are none or the library fails
ExtractLines ==
    /\ pc = "start" /\ fileKind = "pdf"
    /\ \E ls \in PipeLineLists :
          /\ lines' = (IF ls = << >> THEN None ELSE Some(ls))
          /\ pc' = (IF ls = << >> THEN "fallback" ELSE "text")
    /\ calls' = Append(calls, "extract_pdf_text_lines")
    /\ UNCHANGED <<clientVars, batchVars, inv, inv0, inv1, fileKind, image, textOut, visionOut, textRet,
                   visionRet, result, arg, out>>

\* mutant: the fallback to image + vision is entered even when the text
\* strategy gave a record
TextStrategy_AlwaysFallsBack ==
    /\ pc = "text"
    /\ \E outcome \in InferenceOutcomes :
          /\ textOut' = Some(outcome)
          /\ textRet' = Some(extract_invoice_data_from_pdf_text_with_lines(outcome, Val(lines)))
          /\ inv0' = extract_invoice_data_from_text(outcome).v
    /\ inv' = Val(textRet').v
    /\ pc' = "fallback"
    /\ calls' = Append(calls, "text")
    /\ UNCHANGED <<clientVars, batchVars, inv1, lines, fileKind, image, visionOut, visionRet, result, arg, out>>

\* invoice_data = extract_invoice_data_from_pdf_text_with_lines(text, lines)
TextStrategy ==
    /\ pc = "text"
    /\ \E outcome \in InferenceOutcomes :
          /\ textOut' = Some(outcome)
          /\ textRet' = Some(extract_invoice_data_from_pdf_text_with_lines(outcome, Val(lines)))
          /\ inv0' = extract_invoice_data_from_text(outcome).v
    /\ inv' = Val(textRet').v
    /\ pc' = (IF IsNone(inv') THEN "fallback" ELSE "rows")
    /\ calls' = Append(calls, "text")
    /\ UNCHANGED <<clientVars, batchVars, inv1, lines, fileKind, image, visionOut, visionRet, result, arg, out>>

\* image = pdf_to_image(temp_file_path)
RenderPdf ==
    /\ pc = "fallback"
    /\ \E img \in {"ok", "none"} :
          /\ image' = img
          /\ pc' = (IF img = "ok" THEN "vision" ELSE "rows")
    /\ calls' = Append(calls, "pdf_to_image")
    /\ UNCHANGED <<clientVars, batchVars, inv, inv0, inv1, lines, fileKind, textOut, visionOut, textRet,
                   visionRet, result, arg, out>>

\* image_bytes = f.read()
ReadImageFile ==
    /\ pc = "start" /\ fileKind = "image"
    /\ image' = "ok"
    /\ pc' = "vision"
    /\ UNCHANGED <<clientVars, batchVars, inv, inv0, inv1, lines, fileKind, textOut, visionOut, textRet,
                   visionRet, result, calls, arg, out>>

\* mutant: the vision call is made again after a rate-limit error
VisionStrategy_Retry ==
    /\ pc = "vision"
    /\ \E outcome \in InferenceOutcomes :
          /\ visionOut' = Some(outcome)
          /\ visionRet' = Some(extract_invoice_data_from_image(outcome))
    /\ inv' = Val(visionRet').v
    /\ pc' = (IF Val(visionOut').k = "rate limit" /\ Len(calls) < 5 THEN "vision"
              ELSE IF Val(visionRet').k = "raise" THEN "done" ELSE "rows")
    /\ result' = (IF Val(visionRet').k = "raise" /\ pc' = "done" THEN visionRet' ELSE result)
    /\ calls' = Append(calls, "vision")
    /\ UNCHANGED <<clientVars, batchVars, inv0, inv1, lines, fileKind, image, textOut, textRet, arg, out>>

\* invoice_data = extract_invoice_data_from_image(image_bytes); an exception
\* leaving it would leave the handler as well
VisionStrategy ==
    /\ pc = "vision"
    /\ \E outcome \in InferenceOutcomes :
          /\ visionOut' = Some(outcome)
          /\ visionRet' = Some(extract_invoice_data_from_image(outcome))
    /\ inv' = Val(visionRet').v
    /\ pc' = (IF Val(visionRet').k = "raise" THEN "done" ELSE "rows")
    /\ result' = (IF Val(visionRet').k = "raise" THEN visionRet' ELSE result)
    /\ calls' = Append(calls, "vision")
    /\ UNCHANGED <<clientVars, batchVars, inv0, inv1, lines, fileKind, image, textOut, textRet, arg, out>>

\* neither a PDF nor an image: invoice_data stays None
SkipUnsupported ==
    /\ pc = "start" /\ fileKind = "other"
    /\ pc' = "rows"
    /\ UNCHANGED <<clientVars, batchVars, inv, inv0, inv1, lines, fileKind, image, textOut, visionOut, textRet,
                   visionRet, result, calls, arg, out>>

\* if not invoice_data: return []; return create_invoice_rows(invoice_data)
ReturnRows ==
    /\ pc = "rows"
    /\ result' = Some(Return(IF IsNone(inv) THEN << >> ELSE create_invoice_rows(Val(inv))))
    /\ pc' = "done"
    /\ UNCHANGED <<clientVars, batchVars, inv, inv0, inv1, lines, fileKind, image, textOut, visionOut, textRet,
                   visionRet, calls, arg, out>>

NextPipe ==
    \/ ExtractLines
    \/ TextStrategy
    \/ RenderPdf
    \/ ReadImageFile
    \/ VisionStrategy
    \/ SkipUnsupported
    \/ ReturnRows

SpecPipe == InitPipe /\ [][NextPipe]_vars

(***************************************************************************)
(* Field Reconciler (src/ai.py, _post_process_extracted_data)              *)
(*                                                                         *)
(* A mapping is a function from the key universe to JSON values; the value *)
(* JAbsent stands for a key the mapping does not hold.  An Arabic label is *)
(* written "AR_" followed by the canonical key it stands for.              *)
(***************************************************************************)
\* re.sub(r'[^\d]', '', s): \d matches the Arabic-indic digits too
DigitsOnly(s) == FilterChars(s, WesternDigits \cup ArabicDigits)

\* re.findall(r'\d+', s)[0] for an s that holds a digit
RECURSIVE FirstDigitRun(_)
FirstDigitRun(s) ==
    IF s = << >> THEN << >>
    ELSE IF ~IsDigitChar(Head(s)) THEN FirstDigitRun(Tail(s))
    ELSE IF Len(s) = 1 \/ ~IsDigitChar(s[2]) THEN <<Head(s)>>
    ELSE <<Head(s)>> \o FirstDigitRun(Tail(s))

\* cleaned if cleaned else None
StrOrNull(cleaned) == IF cleaned = << >> THEN JNull ELSE JStr(cleaned)

_clean_tax_number(value) ==
    IF ~PyTruthy(value) THEN JNull ELSE StrOrNull(DigitsOnly(StrOf(value)))

_clean_phone_number(value) ==
    IF ~PyTruthy(value) THEN JNull
    ELSE StrOrNull(DigitsOnly(FilterChars(StrOf(value),
                     { StrOf(value)[i] : i \in 1..Len(StrOf(value)) } \ {SP, "-", "(", ")"})))

_clean_income_source_sequence(value) ==
    IF ~PyTruthy(value) THEN JNull ELSE StrOrNull(DigitsOnly(StrOf(value)))

\* mutant: one blank is taken off each end instead of all of them
_clean_invoice_type_OneBlank(value) ==
    IF ~PyTruthy(value) THEN JNull
    ELSE LET v == StrOf(value)
             a == IF v # << >> /\ Head(v) = SP THEN Tail(v) ELSE v
             b == IF a # << >> /\ a[Len(a)] = SP THEN SubSeq(a, 1, Len(a) - 1) ELSE a
         IN  StrOrNull(b)

_clean_invoice_type(value) ==
    IF ~PyTruthy(value) THEN JNull ELSE StrOrNull(Strip(StrOf(value)))

_clean_city(value) ==
    IF ~PyTruthy(value) THEN JNull ELSE StrOrNull(Strip(StrOf(value)))

\* the keys of the schema at the top level (InvoiceData)
CanonicalKeys ==
    {"commercial_name", "tax_number", "income_source_sequence",
     "electronic_invoice_number", "seller_invoice_number", "invoice_date",
     "invoice_type", "currency", "buyer_name", "buyer_number", "phone_number", "city",
     "items", "total_discount", "grand_total", "invoice_number", "customer_name",
     "seller_name", "subtotal", "total_tax"}

\* arabic_to_english
arabic_to_english ==
    [ar \in {"AR_commercial_name", "AR_tax_number", "AR_income_source_sequence",
             "AR_electronic_invoice_number", "AR_seller_invoice_number",
             "AR_invoice_date", "AR_invoice_type", "AR_currency", "AR_buyer_name",
             "AR_buyer_number", "AR_phone_number", "AR_city", "AR_total_discount",
             "AR_grand_total"} |->
        CASE ar = "AR_commercial_name" -> "commercial_name"
          [] ar = "AR_tax_number" -> "tax_number"
          [] ar = "AR_income_source_sequence" -> "income_source_sequence"
          [] ar = "AR_electronic_invoice_number" -> "electronic_invoice_number"
          [] ar = "AR_seller_invoice_number" -> "seller_invoice_number"
          [] ar = "AR_invoice_date" -> "invoice_date"
          [] ar = "AR_invoice_type" -> "invoice_type"
          [] ar = "AR_currency" -> "currency"
          [] ar = "AR_buyer_name" -> "buyer_name"
          [] ar = "AR_buyer_number" -> "buyer_number"
          [] ar = "AR_phone_number" -> "phone_number"
          [] ar = "AR_city" -> "city"
          [] ar = "AR_total_discount" -> "total_discount"
          [] ar = "AR_grand_total" -> "grand_total"]

\* the English variations looked for besides income_source_sequence
SynonymKeys == {"income_source_number", "income_source"}

\* every key a raw mapping of the model can hold
TopKeys == CanonicalKeys \cup DOMAIN arabic_to_english \cup SynonymKeys

\* key in data
Has(data, key) == data[key].t # "absent"

\* data.get(key)
Get(data, key) == IF Has(data, key) THEN data[key] ELSE JNull

\* {}
EmptyMapping == [k \in TopKeys |-> JAbsent]

\* lines 267-269: each alias is copied where the canonical key is absent
ResolveArabicKeys(data) ==
    [k \in TopKeys |->
        IF ~Has(data, k)
           /\ \E ar \in DOMAIN arabic_to_english : arabic_to_english[ar] = k /\ Has(data, ar)
        THEN data[CHOOSE ar \in DOMAIN arabic_to_english : arabic_to_english[ar] = k]
        ELSE data[k]]

\* lines 272-275
ResolveSynonyms(data) ==
    IF Has(data, "income_source_sequence") THEN data
    ELSE IF Has(data, "income_source_number")
    THEN [data EXCEPT !["income_source_sequence"] = data["income_source_number"]]
    ELSE IF Has(data, "income_source")
    THEN [data EXCEPT !["income_source_sequence"] = data["income_source"]]
    ELSE data

\* the keys of the schema of an item (InvoiceItem)
ItemCanonicalKeys ==
    {"description", "quantity", "unit_price", "amount", "discount", "line_subtotal",
     "tax_rate", "tax_amount", "line_total"}

\* the Arabic labels looked for in an item
ItemArabicKeys ==
    {"AR_description", "AR_quantity", "AR_unit_price", "AR_amount", "AR_discount",
     "AR_line_total"}

ItemKeys == ItemCanonicalKeys \cup ItemArabicKeys

\* an entry of the items list: a mapping (isdict) or something else
RawItem(isdict, d) == [isdict |-> isdict, d |-> d]

\* item.get(key) or item.get(alias)
GetOr(item, key, alias) ==
    IF PyTruthy(Get(item, key)) THEN Get(item, key) ELSE Get(item, alias)

\* norm_item (lines 284-294)
norm_item(item) ==
    [k \in ItemKeys |->
        CASE k = "description" -> GetOr(item, "description", "AR_description")
          [] k = "quantity" -> GetOr(item, "quantity", "AR_quantity")
          [] k = "unit_price" -> GetOr(item, "unit_price", "AR_unit_price")
          [] k = "amount" -> GetOr(item, "amount", "AR_amount")
          [] k = "discount" -> GetOr(item, "discount", "AR_discount")
          [] k = "line_subtotal" -> Get(item, "line_subtotal")
          [] k = "tax_rate" -> Get(item, "tax_rate")
          [] k = "tax_amount" -> Get(item, "tax_amount")
          [] k = "line_total" -> GetOr(item, "line_total", "AR_line_total")
          [] OTHER -> JAbsent]

\* mutant: an entry that is no mapping stays in the list
RECURSIVE normalized_items_KeepAll(_)
normalized_items_KeepAll(raw_items) ==
    IF raw_items = << >> THEN << >>
    ELSE IF ~Head(raw_items).isdict
    THEN <<Head(raw_items)>> \o normalized_items_KeepAll(Tail(raw_items))
    ELSE <<RawItem(TRUE, norm_item(Head(raw_items).d))>>
         \o normalized_items_KeepAll(Tail(raw_items))

\* the loop of lines 281-295: entries that are not mappings are skipped
RECURSIVE normalized_items(_)
normalized_items(raw_items) ==
    IF raw_items = << >> THEN << >>
    ELSE IF ~Head(raw_items).isdict THEN normalized_items(Tail(raw_items))
    ELSE <<RawItem(TRUE, norm_item(Head(raw_items).d))>> \o normalized_items(Tail(raw_items))

\* lines 278-296
NormalizeItems(data) ==
    IF Get(data, "items").t = "list"
    THEN [data EXCEPT !["items"] = JList(normalized_items(data["items"].l))]
    ELSE data

\* lines 306-311
CleanSellerInvoiceNumber(value) ==
    IF value.t = "str" /\ DigitsOnly(value.s) # << >> THEN JStr(FirstDigitRun(value.s))
    ELSE value

\* lines 298-321: if key in data and data[key]: data[key] = cleaner(data[key])
CleanFields(data) ==
    [k \in TopKeys |->
        IF ~(Has(data, k) /\ PyTruthy(data[k])) THEN data[k]
        ELSE CASE k = "tax_number" -> _clean_tax_number(data[k])
               [] k = "income_source_sequence" -> _clean_income_source_sequence(data[k])
               [] k = "seller_invoice_number" -> CleanSellerInvoiceNumber(data[k])
               [] k = "invoice_type" -> _clean_invoice_type(data[k])
               [] k = "phone_number" -> _clean_phone_number(data[k])
               [] k = "city" -> _clean_city(data[k])
               [] OTHER -> data[k]]

\* a raw payload: a mapping (isdict, d) or any other JSON value
RawPayload(isdict, d) == [isdict |-> isdict, d |-> d]

_post_process_extracted_data(payload) ==
    IF ~payload.isdict THEN EmptyMapping
    ELSE CleanFields(NormalizeItems(ResolveSynonyms(ResolveArabicKeys(payload.d))))

(***************************************************************************)
(* Input sets of the Field Reconciler                                      *)
(***************************************************************************)
\* the most entries of a raw items list
MaxRawItems == 1

\* a mapping holding the keys of kw and no other
Mapping(keys, kw) == [k \in keys |-> IF k \in DOMAIN kw THEN kw[k] ELSE JAbsent]

\* tax_number under its canonical key and under its Arabic label
TaxNumberKeys ==
    { [tax_number |-> c, AR_tax_number |-> a] :
        c \in {JAbsent, JStr(<<"4", "-", "5">>), JNum(4500)},
        a \in {JAbsent, JStr(<<"ar7", SP, "8">>)} }

\* income_source_sequence and its two English variations
IncomeSourceKeys ==
    { [income_source_sequence |-> c, income_source_number |-> n, income_source |-> i] :
        c \in {JAbsent, JStr(<<"9">>)},
        n \in {JAbsent, JStr(<<"7">>)},
        i \in {JAbsent, JStr(<<"8", SP, "x">>)} }

\* grand_total under its canonical key (0 included) and under its Arabic label
GrandTotalKeys ==
    { [grand_total |-> c, AR_grand_total |-> a] :
        c \in {JAbsent, JNum(0)}, a \in {JAbsent, JNum(7500)} }

\* the fields the cleaners work on
CleanedKeys ==
    { [city |-> JAbsent],
      [seller_invoice_number |-> JStr(<<"N", "1", "2", "-", "3", "4">>),
       invoice_type |-> JStr(<<SP, SP, "a", "b", SP>>),
       phone_number |-> JStr(<<"(", "0", "7", ")", SP, "1", "-", "2">>),
       city |-> JStr(<<SP, "c", "d">>)],
      [seller_invoice_number |-> JStr(<<"x">>), invoice_type |-> JStr(<<SP>>),
       phone_number |-> JStr(<<"-">>), city |-> JStr(<< >>)],
      [seller_invoice_number |-> JNum(500), invoice_type |-> JNull,
       phone_number |-> JNum(712), city |-> JNull] }

\* entries of a raw items list
RawItemPool ==
    { RawItem(TRUE, Mapping(ItemKeys, [discount |-> JNum(0)])),
      RawItem(TRUE, Mapping(ItemKeys, [discount |-> JNum(0), AR_discount |-> JNum(500)])),
      RawItem(TRUE, Mapping(ItemKeys, [discount |-> JNum(200), AR_discount |-> JNum(500),
                                      description |-> JStr(W_ab)])),
      RawItem(TRUE, Mapping(ItemKeys, [AR_discount |-> JNum(500), AR_description |-> JStr(W_ab),
                                      AR_quantity |-> JNum(300), AR_unit_price |-> JNum(1000),
                                      AR_amount |-> JNum(3000), AR_line_total |-> JNum(2500)])),
      RawItem(TRUE, Mapping(ItemKeys, [description |-> JStr(<< >>),
                                      AR_description |-> JStr(W_ab)])),
      RawItem(TRUE, Mapping(ItemKeys, [description |-> JStr(W_cd), quantity |-> JNum(300),
                                      unit_price |-> JNum(1000), line_subtotal |-> JNum(3000),
                                      tax_rate |-> JStr(<<"1", "6", "%">>),
                                      tax_amount |-> JNum(480), line_total |-> JNum(3480)])),
      RawItem(FALSE, Mapping(ItemKeys, [description |-> JAbsent])) }

RawItemsValues ==
    {JAbsent, JNull} \cup { JList(l) : l \in SeqsUpTo(RawItemPool, MaxRawItems) }

\* the raw payloads: mappings with every combination of the fields above and a
\* short items list, mappings that hold a longer items list and nothing else,
\* and one payload that is no mapping
ReconcilerInputs ==
    { RawPayload(TRUE, Mapping(TopKeys, t @@ i @@ g @@ c @@ [items |-> its])) :
        t \in TaxNumberKeys, i \in IncomeSourceKeys, g \in GrandTotalKeys,
        c \in CleanedKeys, its \in RawItemsValues }
    \cup { RawPayload(TRUE, Mapping(TopKeys, [items |-> JList(l)])) :
             l \in SeqsUpTo(RawItemPool, MaxRawItems + 1) }
    \cup { RawPayload(FALSE, EmptyMapping) }

(***************************************************************************)
(* Specification SpecReconcile: _post_process_extracted_data applied to a  *)
(* raw payload, then to its own output                                     *)
(***************************************************************************)
InitReconcile ==
    /\ ClientIdle /\ BatchIdle
    /\ pc = "raw"
    /\ arg \in { Some(d) : d \in ReconcilerInputs }
    /\ out = None
    /\ inv = None /\ inv0 = None /\ inv1 = None /\ lines = None
    /\ PipelineIdle

ReconcilerApply ==
    /\ pc = "raw"
    /\ out' = Some(_post_process_extracted_data(Val(arg)))
    /\ inv1' = out'
    /\ pc' = "once"
    /\ UNCHANGED <<clientVars, batchVars, inv, inv0, lines, pipeVars, arg>>

ReconcilerReapply ==
    /\ pc = "once"
    /\ out' = Some(_post_process_extracted_data(RawPayload(TRUE, Val(out))))
    /\ pc' = "twice"
    /\ UNCHANGED <<clientVars, batchVars, inv, inv0, inv1, lines, pipeVars, arg>>

NextReconcile == ReconcilerApply \/ ReconcilerReapply

SpecReconcile == InitReconcile /\ [][NextReconcile]_vars

(***************************************************************************)
(* Inputs of the row flattening and the specification that applies it      *)
(***************************************************************************)
MaxRowItems == 3

\* line items told apart by their description; one leaves every field empty
RowItemPool ==
    { InvoiceItem([description |-> Some(W_ab), quantity |-> Some(200),
                   unit_price |-> Some(5000), line_total |-> Some(10000)]),
      InvoiceItem([description |-> Some(W_cd), quantity |-> Some(100),
                   unit_price |-> Some(2500), discount |-> Some(500),
                   tax_amount |-> Some(320)]),
      InvoiceItem([amount |-> Some(0)]),
      DefaultItem }

\* records with up to MaxRowItems items, with or without header values and
\* invoice totals
RowRecords ==
    { InvoiceData([items |-> its, electronic_invoice_number |-> ein,
                   buyer_name |-> bn, grand_total |-> gt, total_tax |-> tt]) :
        its \in SeqsUpTo(RowItemPool, MaxRowItems),
        ein \in {None, Some(W_EIN7)},
        bn \in {None, Some(W_mn)},
        gt \in {None, Some(0), Some(12500)},
        tt \in {None, Some(320)} }

InitRows ==
    /\ ClientIdle /\ BatchIdle
    /\ pc = "raw"
    /\ inv \in { Some(r) : r \in RowRecords }
    /\ inv0 = inv
    /\ inv1 = None /\ lines = None /\ PipelineIdle /\ arg = None /\ out = None

\* one call create_invoice_rows(inv); out holds the rows
FlattenRows ==
    /\ pc = "raw"
    /\ out' = Some(create_invoice_rows(Val(inv)))
    /\ pc' = "flat"
    /\ UNCHANGED <<clientVars, batchVars, inv, inv0, inv1, lines, pipeVars, arg>>

NextRows == FlattenRows

SpecRows == InitRows /\ [][NextRows]_vars

(***************************************************************************)
(* Schema validation, the call InvoiceData(data) with the mapping unpacked *)
(* into keyword arguments (src/ai.py 31-73), and the text                   *)
(* strategy taken stage by stage: reconciliation, validation, completion,  *)
(* alignment, row flattening                                               *)
(***************************************************************************)
\* a field declared Optional[str] accepts a str or None
IsOptionalStr(v) == v.t \in {"str", "null", "absent"}

\* the value of such a field
OptionalStr(v) == IF v.t = "str" THEN Some(v.s) ELSE None

\* a field declared Optional[float] accepts a number, a str that float()
\* reads, or None
IsOptionalFloat(v) ==
    \/ v.t \in {"num", "null", "absent"}
    \/ /\ v.t = "str" /\ v.s # << >>
       /\ \A i \in 1..Len(v.s) : v.s[i] \in WesternDigits \cup {"."}
       /\ FloatOf(v.s).k = "return"

\* the value of such a field
OptionalFloat(v) ==
    CASE v.t = "num" -> Some(v.n)
      [] v.t = "str" -> FloatOf(v.s).v
      [] OTHER -> None

\* tax_rate: Optional[Any] (a list is not among the values drawn)
AnyTaxRate(v) ==
    CASE v.t = "str" -> TaxStr(v.s)
      [] v.t = "num" -> TaxNum(v.n)
      [] OTHER -> TaxNone

\* InvoiceItem(**d) for an entry of the items list
ItemOf(d) ==
    [f \in DOMAIN DefaultItem |->
        CASE f = "description" -> OptionalStr(Get(d, f))
          [] f = "tax_rate" -> AnyTaxRate(Get(d, f))
          [] OTHER -> OptionalFloat(Get(d, f))]

ItemIsValid(e) ==
    /\ e.isdict
    /\ IsOptionalStr(Get(e.d, "description"))
    /\ \A f \in ItemNumericFields : IsOptionalFloat(Get(e.d, f))

\* items: list[InvoiceItem] = Field(default_factory=list)
ItemsAreValid(v) ==
    \/ v.t = "absent"
    \/ v.t = "list" /\ \A i \in 1..Len(v.l) : ItemIsValid(v.l[i])

ItemsOf(v) == IF v.t = "absent" THEN << >> ELSE [i \in 1..Len(v.l) |-> ItemOf(v.l[i].d)]

HeaderStrFields ==
    {"electronic_invoice_number", "seller_invoice_number", "invoice_number", "buyer_name",
     "customer_name"}

\* InvoiceData(**data): the record, or the ValidationError; keys that are not
\* fields of the schema are ignored
ValidateInvoiceData(data) ==
    IF /\ ItemsAreValid(data["items"])
       /\ \A f \in HeaderStrFields : IsOptionalStr(data[f])
       /\ \A f \in TotalFields : IsOptionalFloat(data[f])
    THEN Return(Some([f \in DOMAIN DefaultInvoice |->
                         CASE f = "items" -> ItemsOf(data["items"])
                           [] f \in HeaderStrFields -> OptionalStr(data[f])
                           [] OTHER -> OptionalFloat(data[f])]))
    ELSE Raise("ValidationError")

\* the longest raw items list of the stage-by-stage specification
MaxChainItems == 3

\* raw entries told apart by their quantity: canonical keys, Arabic labels,
\* the numbers of the example row, and an entry that is no mapping
ChainItemPool ==
    { RawItem(TRUE, Mapping(ItemKeys, [description |-> JStr(Join(<<W_mn, W_qt>>)),
                                      quantity |-> JNum(100)])),
      RawItem(TRUE, Mapping(ItemKeys, [AR_description |-> JStr(W_ab),
                                      AR_quantity |-> JNum(200)])),
      RawItem(TRUE, Mapping(ItemKeys, [description |-> JStr(W_zz), quantity |-> JNum(300),
                                      unit_price |-> JNum(1000), amount |-> JNum(3000),
                                      discount |-> JStr(<<"0">>), line_total |-> JNum(3000)])),
      RawItem(FALSE, Mapping(ItemKeys, [description |-> JAbsent])) }

ChainPayloads ==
    { RawPayload(TRUE, Mapping(TopKeys, [items |-> JList(l)])) :
        l \in SeqsUpTo(ChainItemPool, MaxChainItems) }

ChainLineLists == { <<LineDescriptionFirst>>, <<LineWords, LineDescriptionFirst>> }

InitChain ==
    /\ ClientIdle /\ BatchIdle
    /\ pc = "raw"
    /\ arg \in { Some(d) : d \in ChainPayloads }
    /\ lines \in { Some(ls) : ls \in ChainLineLists }
    /\ out = None /\ inv = None /\ inv0 = None /\ inv1 = None
    /\ PipelineIdle

\* data = _post_process_extracted_data(data)
ChainReconcile ==
    /\ pc = "raw"
    /\ out' = Some(_post_process_extracted_data(Val(arg)))
    /\ pc' = "reconciled"
    /\ UNCHANGED <<clientVars, batchVars, inv, inv0, inv1, lines, pipeVars, arg>>

\* invoice_data = InvoiceData(**data); a ValidationError ends the strategy
ChainValidate ==
    /\ pc = "reconciled"
    /\ inv' = ValidateInvoiceData(Val(out)).v
    /\ pc' = (IF ValidateInvoiceData(Val(out)).k = "raise" THEN "failed" ELSE "validated")
    /\ UNCHANGED <<clientVars, batchVars, inv0, inv1, lines, pipeVars, arg, out>>

\* invoice_data = _post_process_invoice_data(invoice_data)
ChainComplete ==
    /\ pc = "validated"
    /\ inv' = Some(_post_process_invoice_data(Val(inv)))
    /\ inv0' = inv'
    /\ pc' = "completed"
    /\ UNCHANGED <<clientVars, batchVars, inv1, lines, pipeVars, arg, out>>

\* corrected = _align_descriptions_with_pdf_lines(base, lines)
ChainAlign ==
    /\ pc = "completed"
    /\ inv' = Some(_align_descriptions_with_pdf_lines(Val(inv), Val(lines)))
    /\ pc' = "aligned"
    /\ UNCHANGED <<clientVars, batchVars, inv0, inv1, lines, pipeVars, arg, out>>

\* rows = create_invoice_rows(invoice_data)
ChainFlatten ==
    /\ pc = "aligned"
    /\ result' = Some(Return(create_invoice_rows(Val(inv))))
    /\ pc' = "flat"
    /\ UNCHANGED <<clientVars, batchVars, inv, inv0, inv1, lines, fileKind, image, textOut, visionOut,
                   textRet, visionRet, calls, arg, out>>

NextChain ==
    \/ ChainReconcile
    \/ ChainValidate
    \/ ChainComplete
    \/ ChainAlign
    \/ ChainFlatten

SpecChain == InitChain /\ [][NextChain]_vars

(***************************************************************************)
(* The upload request (src/app.py, upload_files): the files of one request *)
(* are taken one after the other; each file stands for its name and for    *)
(* what saving and processing it does, which is rows, no rows or an        *)
(* exception. The PDF reading library is taken to be installed.            *)
(***************************************************************************)
EndsWith(s, suffix) ==
    Len(s) >= Len(suffix) /\ SubSeq(s, Len(s) - Len(suffix) + 1, Len(s)) = suffix

is_pdf_file(filename) == EndsWith(Lower(filename), <<".", "p", "d", "f">>)

is_image_file(filename) ==
    \E suffix \in { <<".", "j", "p", "g">>, <<".", "j", "p", "e", "g">>,
                    <<".", "p", "n", "g">> } :
        EndsWith(Lower(filename), suffix)

\* the columns of a row that the model carries
ARABIC_HEADERS == DOMAIN EmptyRow(InvoiceData([items |-> << >>]))

\* the text put before the file name in a placeholder row
FailedMessage == <<"failed:", SP>>

\* lines 288-289: an empty row with a message in the description column
PlaceholderRow(fname) ==
    [header \in ARABIC_HEADERS |->
        IF header = "description" THEN StrCell(FailedMessage \o fname)
        ELSE StrCell(<< >>)]

\* all_rows, processed_count and failed_files, taken together
BatchState ==
    [all_rows |-> all_rows, processed_count |-> processed_count,
     failed_files |-> failed_files]

\* mutant: a file whose processing raised is not put on record
FileStep_ExceptionUnrecorded(file, st) ==
    IF file.does.k = "raise" THEN st
    ELSE IF file.does.v # << >>
    THEN [st EXCEPT !.all_rows = @ \o file.does.v, !.processed_count = @ + 1]
    ELSE [st EXCEPT !.failed_files = Append(@, file.filename)]

\* the body of the per-file loop (lines 238-279) for one file: rows are
\* appended and counted, no rows or an exception puts the name on failed_files
FileStep(file, st) ==
    IF file.does.k = "return" /\ file.does.v # << >>
    THEN [st EXCEPT !.all_rows = @ \o file.does.v, !.processed_count = @ + 1]
    ELSE [st EXCEPT !.failed_files = Append(@, file.filename)]

\* the most files of one request
MaxFiles == 3

BatchRecords ==
    { InvoiceData([items |-> <<InvoiceItem([description |-> Some(W_ab), quantity |-> Some(200)]),
                               InvoiceItem([description |-> Some(W_cd), quantity |-> Some(100)])>>,
                   buyer_name |-> Some(W_mn)]),
      InvoiceData([electronic_invoice_number |-> Some(W_EIN7)]) }

\* uploaded files: two that give rows, one that gives none, one whose
\* processing raises, one of a type that is not taken
FilePool ==
    { [filename |-> <<"a", ".", "p", "d", "f">>, does |-> Return(create_invoice_rows(r))] :
          r \in BatchRecords }
    \cup
    { [filename |-> <<"b", ".", "P", "N", "G">>,
       does |-> Return(create_invoice_rows(InvoiceData([electronic_invoice_number |-> Some(W_EIN7)])))],
      [filename |-> <<"c", ".", "p", "d", "f">>, does |-> Return(<< >>)],
      [filename |-> <<"d", ".", "j", "p", "g">>, does |-> Raise("processing failed")],
      [filename |-> <<"e", ".", "t", "x", "t">>, does |-> Return(<< >>)] }

(***************************************************************************)
(* Specification SpecBatch: one upload request from its arrival to the     *)
(* rows handed to the spreadsheet writer                                   *)
(***************************************************************************)
InitBatch ==
    /\ ClientIdle
    /\ pc = "received"
    /\ inv = None /\ inv0 = None /\ inv1 = None /\ lines = None
    /\ PipelineIdle /\ arg = None /\ out = None
    /\ files \in SeqsUpTo(FilePool, MaxFiles)
    /\ file_no = 0 /\ all_rows = << >> /\ processed_count = 0 /\ failed_files = << >>

\* lines 210-232: no file, or a file that is neither PDF nor image, ends the
\* request with status 400
ValidateFiles ==
    /\ pc = "received"
    /\ pc' = IF files = << >> THEN "http400"
             ELSE IF \E i \in 1..Len(files) :
                        ~(is_pdf_file(files[i].filename) \/ is_image_file(files[i].filename))
             THEN "http400"
             ELSE "loop"
    /\ UNCHANGED <<clientVars, batchVars, inv, inv0, inv1, lines, pipeVars, arg, out>>

\* one pass of the loop of lines 241-279
ProcessFile ==
    /\ pc = "loop"
    /\ file_no < Len(files)
    /\ file_no' = file_no + 1
    /\ all_rows' = FileStep(files[file_no + 1], BatchState).all_rows
    /\ processed_count' = FileStep(files[file_no + 1], BatchState).processed_count
    /\ failed_files' = FileStep(files[file_no + 1], BatchState).failed_files
    /\ UNCHANGED <<clientVars, files, pc, inv, inv0, inv1, lines, pipeVars, arg, out>>

\* the loop is over
EndOfLoop ==
    /\ pc = "loop"
    /\ file_no = Len(files)
    /\ pc' = "looped"
    /\ UNCHANGED <<clientVars, batchVars, inv, inv0, inv1, lines, pipeVars, arg, out>>

\* lines 281-296: without any row, one placeholder row per failed file, or
\* status 500 when no file is on record as failed
PlaceholderRows ==
    /\ pc = "looped"
    /\ IF all_rows = << >>
       THEN IF failed_files # << >>
            THEN /\ all_rows' = [i \in 1..Len(failed_files) |-> PlaceholderRow(failed_files[i])]
                 /\ pc' = "rows"
            ELSE /\ pc' = "http500"
                 /\ UNCHANGED all_rows
       ELSE /\ pc' = "rows"
            /\ UNCHANGED all_rows
    /\ UNCHANGED <<clientVars, files, file_no, processed_count, failed_files,
                   inv, inv0, inv1, lines, pipeVars, arg, out>>

NextBatch == ValidateFiles \/ ProcessFile \/ EndOfLoop \/ PlaceholderRows

SpecBatch == InitBatch /\ [][NextBatch]_vars

(***************************************************************************)
(* Pipelines for several documents running side by side in one process,    *)
(* each cut down to its inference calls: get_openai_client (src/ai.py     *)
(* 14-25) taken statement by statement, then the call made with the client *)
(* it returned.  A PDF pipeline asks the text strategy first and the       *)
(* vision strategy when the text strategy gave nothing.                    *)
(***************************************************************************)
MaxPipelines == 2

Pipelines == 1..MaxPipelines

\* OpenAI(api_key=api_key): the n-th client object constructed
OpenAI(api_key, n) == [id |-> n, api_key |-> api_key]

\* a pipeline before its first inference call
PipelineStart ==
    [pc |-> "test", strategy |-> "text", new |-> None, client |-> None, result |-> None]

\* what the other variables hold while the pipelines run
StagesIdle ==
    /\ inv = None /\ inv0 = None /\ inv1 = None /\ lines = None
    /\ PipelineIdle /\ arg = None /\ out = None

InitConcurrent ==
    /\ pc = "run"
    /\ StagesIdle /\ BatchIdle
    /\ _client = None
    /\ environ \in {None, Some("sk")}
    /\ clients = 0
    /\ proc = [p \in Pipelines |-> PipelineStart]

\* the strategy of pipeline p ended without a record: a PDF pipeline goes on
\* to the vision strategy, after which the document has no data
StrategyGaveNothing(p) ==
    IF proc[p].strategy = "text"
    THEN [proc EXCEPT ![p].pc = "test", ![p].strategy = "vision",
                      ![p].new = None, ![p].client = None]
    ELSE [proc EXCEPT ![p].pc = "done", ![p].result = Some([record |-> FALSE, client |-> 0])]

\* line 17: if _client is None
TestClient(p) ==
    /\ proc[p].pc = "test"
    /\ proc' = [proc EXCEPT ![p].pc = IF _client = None THEN "getenv" ELSE "return"]
    /\ UNCHANGED <<batchVars, pc, inv, inv0, inv1, lines, pipeVars, arg, out, _client, environ, clients>>

\* lines 18-23: api_key = os.getenv(...); without a key the ValueError ends
\* the strategy in its except clause
GetEnv(p) ==
    /\ proc[p].pc = "getenv"
    /\ proc' = IF environ = None THEN StrategyGaveNothing(p)
               ELSE [proc EXCEPT ![p].pc = "construct"]
    /\ UNCHANGED <<batchVars, pc, inv, inv0, inv1, lines, pipeVars, arg, out, _client, environ, clients>>

\* line 24, right-hand side: OpenAI(api_key=api_key)
ConstructClient(p) ==
    /\ proc[p].pc = "construct"
    /\ clients' = clients + 1
    /\ proc' = [proc EXCEPT ![p].pc = "assign",
                            ![p].new = Some(OpenAI(Val(environ), clients + 1))]
    /\ UNCHANGED <<batchVars, pc, inv, inv0, inv1, lines, pipeVars, arg, out, _client, environ>>

\* line 24, the store: _client = ...
Assign(p) ==
    /\ proc[p].pc = "assign"
    /\ _client' = proc[p].new
    /\ proc' = [proc EXCEPT ![p].pc = "return"]
    /\ UNCHANGED <<batchVars, pc, inv, inv0, inv1, lines, pipeVars, arg, out, environ, clients>>

\* line 25: return _client, bound to the caller's local client
ReturnClient(p) ==
    /\ proc[p].pc = "return"
    /\ proc' = [proc EXCEPT ![p].pc = "create", ![p].client = _client]
    /\ UNCHANGED <<batchVars, pc, inv, inv0, inv1, lines, pipeVars, arg, out, _client, environ, clients>>

\* client.chat.completions.create(...): the service gives a record or nothing
Create(p) ==
    /\ proc[p].pc = "create"
    /\ \E gave \in BOOLEAN :
           proc' = IF gave
                   THEN [proc EXCEPT ![p].pc = "done",
                            ![p].result = Some([record |-> TRUE,
                                                client |-> Val(proc[p].client).id])]
                   ELSE StrategyGaveNothing(p)
    /\ UNCHANGED <<batchVars, pc, inv, inv0, inv1, lines, pipeVars, arg, out, _client, environ, clients>>

PipelineStep(p) ==
    \/ TestClient(p)
    \/ GetEnv(p)
    \/ ConstructClient(p)
    \/ Assign(p)
    \/ ReturnClient(p)
    \/ Create(p)

\* threads: any pipeline may take the next step
NextConcurrent == \E p \in Pipelines : PipelineStep(p)

SpecConcurrent == InitConcurrent /\ [][NextConcurrent]_vars

\* the loop of upload_files: a document is taken up when the ones before it
\* are done
NextSequential ==
    \E p \in Pipelines :
        /\ \A q \in 1..(p - 1) : proc[q].pc = "done"
        /\ PipelineStep(p)

SpecSequential == InitConcurrent /\ [][NextSequential]_vars

(***************************************************************************)
(* Inputs of the Numeric Normalizer and the specification that applies it  *)
(***************************************************************************)
MaxStrLen == 3

\* the characters the argument strings are built from: Western and
\* Arabic-indic digits, both kinds of separators, a letter, a blank, a sign
NumberAlphabet == {"1", "2", "ar1", "ar2", ".", ",", "ar.", "ar,", "a", SP, "-"}

NumberStrings == SeqsUpTo(NumberAlphabet, MaxStrLen)

\* None, some numbers (in hundredths), and the strings
NumberInputs ==
    {JNull} \cup {JNum(n) : n \in {0, 150, 0 - 150, 1200}} \cup {JStr(w) : w \in NumberStrings}

InitNumber ==
    /\ ClientIdle /\ BatchIdle
    /\ pc = "raw"
    /\ arg \in { Some(x) : x \in NumberInputs }
    /\ out = None
    /\ inv = None /\ inv0 = None /\ inv1 = None /\ lines = None
    /\ PipelineIdle

\* one call extract_number(arg); out holds its outcome
ExtractNumber ==
    /\ pc = "raw"
    /\ out' = Some(ExtractNumberCall(Val(arg)))
    /\ pc' = "done"
    /\ UNCHANGED <<clientVars, batchVars, inv, inv0, inv1, lines, pipeVars, arg>>

NextNumber == ExtractNumber

SpecNumber == InitNumber /\ [][NextNumber]_vars

(***************************************************************************)
(* Claims about the Line-Item Completer, checked under SpecComplete        *)
(***************************************************************************)
\* C1: applying _post_process_invoice_data to its own output changes no value
\* of the record (no item field, no invoice-level total).
C1_Idempotent == pc = "twice" => inv = inv1

\* C6: when the record carries no grand_total on entry, the grand_total after
\* _post_process_invoice_data equals the sum of the items' line_total values,
\* also for items with a non-zero discount or tax_amount (stated for the
\* cleanest input: no invoice total is given, there is at least one item, and
\* every item gives quantity and unit_price and leaves amount, line_subtotal
\* and line_total to be computed).
C6_GrandTotalIsSumOfLineTotals ==
    (/\ pc = "once"
     /\ \A f \in TotalFields : IsNone(Val(inv0)[f])
     /\ Val(inv0).items # << >>
     /\ \A i \in 1..Len(Val(inv0).items) :
           /\ ~IsNone(Val(inv0).items[i].quantity)
           /\ ~IsNone(Val(inv0).items[i].unit_price)
           /\ IsNone(Val(inv0).items[i].amount)
           /\ IsNone(Val(inv0).items[i].line_subtotal)
           /\ IsNone(Val(inv0).items[i].line_total))
    => Val(inv).grand_total = Some(SumPresent(Val(inv).items, "line_total"))

\* C7: a numeric item field or an invoice total that is non-null on entry keeps
\* its value through _post_process_invoice_data (applied once or twice), also
\* when it disagrees with quantity x unit_price - discount + tax; the item list
\* keeps its length.
C7_PrintedValuesKept ==
    pc \in {"once", "twice"} =>
        LET before == Val(inv0)
            after  == Val(inv)
        IN  /\ Len(after.items) = Len(before.items)
            /\ \A f \in TotalFields : ~IsNone(before[f]) => after[f] = before[f]
            /\ \A i \in 1..Len(before.items) : \A f \in ItemNumericFields :
                   ~IsNone(before.items[i][f]) => after.items[i][f] = before.items[i][f]

\* a printed amount of 70.00 beside quantity 2 x unit price 50.00 is kept
C7_Witness ==
    /\ pc = "once"
    /\ \E i \in 1..Len(Val(inv0).items) :
          /\ Val(inv0).items[i].quantity = Some(200)
          /\ Val(inv0).items[i].unit_price = Some(5000)
          /\ Val(inv0).items[i].amount = Some(7000)
          /\ Val(inv).items[i].amount = Some(7000)

\* C8: for an item with amount, line_subtotal and line_total absent and
\* quantity and unit_price present, the completer sets amount and
\* line_subtotal to quantity x unit_price and line_total to
\* line_subtotal - (discount or 0) + (tax_amount when present).
C8_ItemBackfill ==
    pc = "once" =>
        \A i \in 1..Len(Val(inv0).items) :
            LET before == Val(inv0).items[i]
                after  == Val(inv).items[i]
                qp     == (Val(before.quantity) * Val(before.unit_price)) \div 100
                disc   == IF IsNone(before.discount) THEN 0 ELSE Val(before.discount)
                tax    == IF IsNone(before.tax_amount) THEN 0 ELSE Val(before.tax_amount)
            IN  (/\ IsNone(before.amount) /\ IsNone(before.line_subtotal)
                 /\ IsNone(before.line_total)
                 /\ ~IsNone(before.quantity) /\ ~IsNone(before.unit_price))
                => /\ after.amount = Some(qp)
                   /\ after.line_subtotal = Some(qp)
                   /\ after.line_total = Some(qp - disc + tax)

\* quantity 2, unit price 50, discount 0, no tax amount: 100.0, 100.0, 100.0
C8_Witness ==
    /\ pc = "once"
    /\ \E i \in 1..Len(Val(inv0).items) :
          /\ Val(inv0).items[i] =
                InvoiceItem([quantity |-> Some(200), unit_price |-> Some(5000),
                             discount |-> Some(0)])
          /\ Val(inv).items[i].amount = Some(10000)
          /\ Val(inv).items[i].line_subtotal = Some(10000)
          /\ Val(inv).items[i].line_total = Some(10000)

\* C9: when the invoice-level subtotal is absent on entry, it is set to the sum
\* of the items' present line_subtotal values iff that sum is strictly
\* positive and stays null otherwise; total_tax likewise from tax_amount.
C9_PositivityGate ==
    pc = "once" =>
        LET after == Val(inv)
            s     == SumPresent(after.items, "line_subtotal")
            t     == SumPresent(after.items, "tax_amount")
        IN  /\ IsNone(Val(inv0).subtotal) =>
                   after.subtotal = (IF s > 0 THEN Some(s) ELSE None)
            /\ IsNone(Val(inv0).total_tax) =>
                   after.total_tax = (IF t > 0 THEN Some(t) ELSE None)

\* line subtotals 100.0 and 50.0 give the subtotal 150.0
C9_Witness ==
    /\ pc = "once"
    /\ IsNone(Val(inv0).subtotal)
    /\ Len(Val(inv0).items) = 2
    /\ Val(inv0).items[1].line_subtotal = Some(10000)
    /\ Val(inv0).items[2].line_subtotal = Some(5000)
    /\ Val(inv).subtotal = Some(15000)

\* line subtotals 0.0 and 0.0 leave the subtotal null
C9_WitnessZero ==
    /\ pc = "once"
    /\ IsNone(Val(inv0).subtotal)
    /\ Len(Val(inv0).items) = 2
    /\ Val(inv0).items[1].line_subtotal = Some(0)
    /\ Val(inv0).items[2].line_subtotal = Some(0)
    /\ IsNone(Val(inv).subtotal)

(***************************************************************************)
(* Claims about the validity filter, checked under SpecValid               *)
(***************************************************************************)
\* C10: _is_valid_extraction returns False if and only if (a) the primary
\* identifier (the first non-empty of electronic_invoice_number,
\* seller_invoice_number, invoice_number) or the buyer name (the first
\* non-empty of buyer_name, customer_name) contains, case-insensitively, one
\* of the fixed placeholder tokens, or (b) the record has no identifier, no
\* buyer name, no items and no grand_total.
C10_DecisionRule ==
    pc = "checked" =>
        LET r      == Val(inv)
            ids    == <<r.electronic_invoice_number, r.seller_invoice_number,
                        r.invoice_number>>
            names  == <<r.buyer_name, r.customer_name>>
            NonEmpty(o) == o # None /\ o # Some(<< >>)
            FirstNonEmpty(os) ==
                IF \E i \in 1..Len(os) : NonEmpty(os[i])
                THEN os[CHOOSE i \in 1..Len(os) :
                            NonEmpty(os[i]) /\ \A j \in 1..(i - 1) : ~NonEmpty(os[j])]
                ELSE None
            Placeholder(o) ==
                /\ o # None
                /\ \E tok \in fake_patterns : \E k \in 1..Len(Val(o)) :
                      /\ k + Len(tok) - 1 <= Len(Val(o))
                      /\ \A d \in 1..Len(tok) :
                            LowerChar(Val(o)[k + d - 1]) = LowerChar(tok[d])
            id     == FirstNonEmpty(ids)
            buyer  == FirstNonEmpty(names)
            a      == Placeholder(id) \/ Placeholder(buyer)
            b      == id = None /\ buyer = None /\ r.items = << >>
                      /\ r.grand_total = None
        IN  (Val(out) = FALSE) <=> (a \/ b)

\* electronic_invoice_number "Sample123" is rejected
C10_Witness ==
    /\ pc = "checked"
    /\ Val(inv).electronic_invoice_number
          = Some(<<"S", "a", "m", "p", "l", "e", "1", "2", "3">>)
    /\ Val(out) = FALSE

\* no identifiers, one item and grand_total 75.0: accepted
C10_WitnessAccepted ==
    /\ pc = "checked"
    /\ IsNone(Val(inv).electronic_invoice_number)
    /\ IsNone(Val(inv).seller_invoice_number)
    /\ IsNone(Val(inv).invoice_number)
    /\ IsNone(Val(inv).buyer_name) /\ IsNone(Val(inv).customer_name)
    /\ Len(Val(inv).items) = 1
    /\ Val(inv).grand_total = Some(7500)
    /\ Val(out) = TRUE

(***************************************************************************)
(* Claims about the Description Aligner, checked under SpecAlign           *)
(***************************************************************************)
\* the item carries the five numbers of the example, whatever its description
HasExampleNumbers(item) ==
    /\ item.quantity = Some(300) /\ item.unit_price = Some(1000)
    /\ item.amount = Some(3000) /\ item.discount = Some(0)
    /\ item.line_total = Some(3000)

\* C2 (as stated): given the source lines ["3 qt mn a 10.00 30.00 0.00 30.00"]
\* (quantity, description words, unit price, amount, discount, line total) and
\* an item with quantity 3, unit_price 10.00, amount 30.00, discount 0.00 and
\* line_total 30.00, the aligned description is exactly "qt mn a".
C2_QuantityFirstExample ==
    (/\ pc = "aligned"
     /\ Val(lines) = <<LineQuantityFirst>>
     /\ Len(Val(inv0).items) = 1
     /\ HasExampleNumbers(Val(inv0).items[1]))
    => Val(inv).items[1].description = Some(ExampleWords)

\* C2 (amended): when the first source line lists the description words (at
\* least one, none of them holding a digit), then quantity, unit_price,
\* amount, discount and line_total as five consecutive tokens, the aligned
\* description is exactly those description words joined by single blanks.
C2_DescriptionFirst ==
    pc = "aligned" =>
        \A i \in 1..Len(Val(inv0).items) :
            LET item   == Val(inv0).items[i]
                tokens == IF Val(lines) = << >> THEN << >> ELSE Split(Val(lines)[1])
                HoldsDigit(tok) == \E c \in 1..Len(tok) : IsDigitChar(tok[c])
                RowAt(k) ==
                    /\ k >= 1 /\ k + 5 <= Len(tokens)
                    /\ \A w \in 1..k : ~HoldsDigit(tokens[w])
                    /\ HaveAllNumbers(item)
                    /\ \A n \in 1..5 :
                          /\ ~IsNone(extract_number(tokens[k + n]))
                          /\ Abs(Val(extract_number(tokens[k + n])) - TargetNums(item)[n]) <= 1
            IN  \A k \in 1..Len(tokens) :
                    RowAt(k) => Val(inv).items[i].description
                                   = Some(Join(SubSeq(tokens, 1, k)))

\* the row "qt mn a 3 10.00 30.00 0.00 30.00" gives the description "qt mn a",
\* replacing what the inference step had returned
C2_Witness ==
    /\ pc = "aligned"
    /\ Val(lines) = <<LineDescriptionFirst>>
    /\ Len(Val(inv0).items) = 1
    /\ HasExampleNumbers(Val(inv0).items[1])
    /\ Val(inv0).items[1].description = Some(W_zz)
    /\ Val(inv).items[1].description = Some(ExampleWords)

(***************************************************************************)
(* Claims about the per-document pipeline, checked under SpecPipe          *)
(***************************************************************************)
\* the inference call of the strategy was made and gave a record
InferenceSucceeded(o) == ~IsNone(o) /\ Val(o).k = "ok"

\* the inference call of the strategy was made and failed with an
\* authentication, rate-limit or quota error
InferenceFailedTransiently(o) ==
    ~IsNone(o) /\ Val(o).k \in {"authentication", "rate limit", "quota"}

C4_TransientFailuresSurfaced ==
    /\ (InferenceFailedTransiently(visionOut) /\ ~IsNone(visionRet)) =>
           Val(visionRet) # Return(None)
    /\ (InferenceFailedTransiently(textOut) /\ ~IsNone(textRet)) =>
           Val(textRet) # Return(None)

\* the description is a substring of one of the source lines
InSourceLines(desc, ls) == \E k \in 1..Len(ls) : Contains(ls[k], desc)

\* C5 (as stated): when the text strategy succeeds for a PDF, every item
\* description of the record it returns is a substring of the source lines.
C5_DescriptionsFromSource ==
    (~IsNone(textRet) /\ ~IsNone(Val(textRet).v)) =>
        \A i \in 1..Len(Val(Val(textRet).v).items) :
            LET desc == Val(Val(textRet).v).items[i].description
            IN  ~IsNone(desc) => InSourceLines(Val(desc), Val(lines))

\* the tokens of the window of size lines of ls that starts at line start
WindowTokensAt(ls, start, size) == Split(Join(SubSeq(ls, start, start + size - 1)))

\* desc is the tokens that come before a run of five numeric tokens equal to
\* the item's quantity, unit_price, amount, discount and line_total, in a
\* window of one to max_window consecutive source lines, joined by blanks
IsAnchoredDescription(desc, item, ls) ==
    /\ HaveAllNumbers(item)
    /\ \E start \in 1..Len(ls) : \E size \in 1..max_window :
          /\ start + size - 1 <= Len(ls)
          /\ LET tokens == WindowTokensAt(ls, start, size)
             IN  \E j \in 1..Len(tokens) :
                    LET nums == NumPositionsFrom(tokens, j + 1)
                    IN  /\ Len(nums) >= 5
                        /\ nums[1] = j + 1
                        /\ \A n \in 1..5 :
                              Abs(Val(extract_number(tokens[nums[n]])) - TargetNums(item)[n]) <= 1
                        /\ desc = Join(SubSeq(tokens, 1, j))

\* C5 (amended): when the text strategy succeeds for a PDF, every item
\* description of the record it returns is one of: a whole source line; the
\* blank-joined tokens that precede the item's five numbers in a window of one
\* to three consecutive source lines; or, when the aligner found neither, the
\* description the inference step gave (after cleanup), kept as it was.
C5_DescriptionsAlignedOrKept ==
    (~IsNone(textRet) /\ ~IsNone(Val(textRet).v)) =>
        /\ Len(Val(Val(textRet).v).items) = Len(Val(inv0).items)
        /\ \A i \in 1..Len(Val(inv0).items) :
              LET before == Val(inv0).items[i]
                  desc   == Val(Val(textRet).v).items[i].description
              IN  \/ desc = before.description
                  \/ /\ ~IsNone(desc)
                     /\ \E k \in 1..Len(Val(lines)) : Val(desc) = Val(lines)[k]
                  \/ /\ ~IsNone(desc)
                     /\ IsAnchoredDescription(Val(desc), before, Val(lines))

\* the text strategy replaced the description the inference step gave by a
\* whole source line
C5_Witness ==
    /\ pc = "done"
    /\ ~IsNone(textRet) /\ ~IsNone(Val(textRet).v)
    /\ Len(Val(inv0).items) = 1
    /\ Val(inv0).items[1].description = Some(Join(<<W_mn, W_qt>>))
    /\ Val(inv).items[1].description = Some(LineDescriptionFirst)
    /\ Val(result).v[1].description = StrCell(LineDescriptionFirst)

\* the record in hand is the one built from the response of inference call o
OriginatesFrom(rec, o) ==
    /\ InferenceSucceeded(o)
    /\ rec.electronic_invoice_number = Val(o).rec.electronic_invoice_number
    /\ Len(rec.items) = Len(Val(o).rec.items)

\* C11: _process_single_invoice never ends with an exception; when no inference
\* call of the document gave a record (failure, no lines, no image) it ends
\* with "no data" (no record, an empty row list); the OCR fallback gives None,
\* so a record handed on always comes from an inference response.
C11_NoFabricatedData ==
    pc = "done" =>
        /\ Val(result).k = "return"
        /\ (~InferenceSucceeded(textOut) /\ ~InferenceSucceeded(visionOut)) =>
               (IsNone(inv) /\ Val(result) = Return(<< >>))
        /\ ~IsNone(inv) =>
               (OriginatesFrom(Val(inv), textOut) \/ OriginatesFrom(Val(inv), visionOut))

\* a PDF whose text strategy and vision strategy both failed ends with an
\* empty row list
C11_Witness ==
    /\ pc = "done"
    /\ fileKind = "pdf"
    /\ ~IsNone(textOut) /\ Val(textOut).k = "other"
    /\ ~IsNone(visionOut) /\ Val(visionOut).k = "rate limit"
    /\ Val(result) = Return(<< >>)

\* the text strategy was run and gave a record
TextGaveRecord == ~IsNone(textRet) /\ ~IsNone(Val(textRet).v)

\* C12: for a PDF the lines are extracted first and the text strategy runs
\* next exactly when there are lines; the image + vision fallback (rendering,
\* then the vision call when a page image was rendered) is entered exactly when
\* the text path gave no record; for an image file only the vision call is
\* made; a record of the vision strategy is the completer's output and is never
\* passed through the Description Aligner.
C12_StrategyOrder ==
    pc = "done" =>
        /\ fileKind = "pdf" =>
              /\ calls \in
                    { <<"extract_pdf_text_lines", "text">>,
                      <<"extract_pdf_text_lines", "text", "pdf_to_image">>,
                      <<"extract_pdf_text_lines", "text", "pdf_to_image", "vision">>,
                      <<"extract_pdf_text_lines", "pdf_to_image">>,
                      <<"extract_pdf_text_lines", "pdf_to_image", "vision">> }
              /\ (calls[2] = "text") <=> ~IsNone(lines)
              /\ (\E k \in 1..Len(calls) : calls[k] = "pdf_to_image") <=> ~TextGaveRecord
              /\ (calls[Len(calls)] = "vision") <=> (~TextGaveRecord /\ image = "ok")
        /\ fileKind = "image" => calls = <<"vision">>
        /\ fileKind = "other" => calls = << >>
        /\ InferenceSucceeded(visionOut) =>
               inv = Some(_post_process_invoice_data(Val(visionOut).rec))

\* a PDF with text lines whose text strategy failed and whose vision strategy
\* gave a record: the description "mn qt", which the aligner would have
\* replaced by the source line, is kept
C12_Witness ==
    /\ pc = "done"
    /\ calls = <<"extract_pdf_text_lines", "text", "pdf_to_image", "vision">>
    /\ lines = Some(<<LineDescriptionFirst>>)
    /\ ~IsNone(inv)
    /\ Len(Val(inv).items) = 1
    /\ Val(inv).items[1].description = Some(Join(<<W_mn, W_qt>>))
    /\ _align_descriptions_with_pdf_lines(Val(inv), Val(lines)) # Val(inv)

(***************************************************************************)
(* Claims about the Field Reconciler, checked under SpecReconcile          *)
(***************************************************************************)
\* C13: for a raw payload that is a mapping, the mapping returned by
\* _post_process_extracted_data holds canonical schema keys only: no Arabic
\* label and no English synonym key of the input remains in it.
C13_CanonicalOnlyOutput ==
    (pc = "once" /\ Val(arg).isdict) =>
        \A k \in TopKeys \ CanonicalKeys : ~Has(Val(out), k)

\* the entries of a raw items list that are mappings, in order
RECURSIVE MappingItems(_)
MappingItems(raw_items) ==
    IF raw_items = << >> THEN << >>
    ELSE IF Head(raw_items).isdict THEN <<Head(raw_items)>> \o MappingItems(Tail(raw_items))
    ELSE MappingItems(Tail(raw_items))

\* C14: a canonical key present in the raw mapping keeps its own value (cleaned
\* by its cleaner, never the value of an alias) at the top level, and in every
\* item mapping the keys description, quantity, unit_price, amount, discount
\* and line_total, when present, keep their raw value, the value 0 included.
C14_CanonicalPrecedence ==
    (pc = "once" /\ Val(arg).isdict) =>
        /\ \A k \in CanonicalKeys \ {"items"} :
              Has(Val(arg).d, k) => Val(out)[k] = CleanFields(Val(arg).d)[k]
        /\ Val(arg).d["items"].t = "list" =>
              LET raw == MappingItems(Val(arg).d["items"].l)
              IN  \A i \in 1..Len(raw) :
                    \A k \in {"description", "quantity", "unit_price", "amount",
                              "discount", "line_total"} :
                        Has(raw[i].d, k) => Val(out)["items"].l[i].d[k] = raw[i].d[k]

\* the mapping and its item mappings hold canonical keys only
UsesOnlyCanonicalKeys(payload) ==
    /\ payload.isdict
    /\ \A k \in TopKeys \ CanonicalKeys : ~Has(payload.d, k)
    /\ payload.d["items"].t = "list" =>
          \A i \in 1..Len(payload.d["items"].l) :
              /\ payload.d["items"].l[i].isdict
              /\ \A k \in ItemArabicKeys : ~Has(payload.d["items"].l[i].d, k)

\* C15: for a raw mapping that uses canonical keys only, applying
\* _post_process_extracted_data to its own output gives that output again
\* (cleaned header fields and every item included).
C15_ReconcilerIdempotent ==
    (pc = "twice" /\ UsesOnlyCanonicalKeys(Val(arg))) => out = inv1

\* a canonical-only mapping with fields to clean and an item: the first
\* application changed it, the second changed nothing more
C15_Witness ==
    /\ pc = "twice"
    /\ UsesOnlyCanonicalKeys(Val(arg))
    /\ Val(arg).d["invoice_type"] = JStr(<<SP, SP, "a", "b", SP>>)
    /\ Val(arg).d["tax_number"] = JStr(<<"4", "-", "5">>)
    /\ Val(arg).d["items"].t = "list" /\ Len(Val(arg).d["items"].l) = 1
    /\ Val(inv1)["invoice_type"] = JStr(W_ab)
    /\ Val(inv1)["tax_number"] = JStr(<<"4", "5">>)
    /\ Val(inv1) # Val(arg).d
    /\ out = inv1

(***************************************************************************)
(* Claims about the Numeric Normalizer, checked under SpecNumber           *)
(***************************************************************************)
ArabicNumberChars == ArabicDigits \cup {"ar.", "ar,"}

\* the string is built from Arabic-indic digits and the Arabic separators
IsArabicNumeric(w) == w # << >> /\ \A i \in 1..Len(w) : w[i] \in ArabicNumberChars

\* the Western way to write one of those characters
WesternChar(c) ==
    CASE c = "ar." -> "."
      [] c = "ar," -> ","
      [] c \in ArabicDigits -> ARABIC_DIGIT_MAP(c)
      [] OTHER -> c

\* the Western-digit equivalent of a string
WesternEquivalent(w) == [i \in 1..Len(w) |-> WesternChar(w[i])]

\* C16: for every string built from Arabic-indic digits and the Arabic
\* decimal and thousands separators, extract_number of the string equals
\* extract_number of its Western-digit equivalent.
C16_ArabicWesternEquivalence ==
    (/\ pc = "done"
     /\ Val(arg).t = "str"
     /\ IsArabicNumeric(Val(arg).s))
    => Val(out) = ExtractNumberCall(JStr(WesternEquivalent(Val(arg).s)))

HasDigit(w) == \E i \in 1..Len(w) : IsDigitChar(w[i])

\* the text that is left for float(): digits and '.' of the normalized string
CleanedOf(x) == FilterChars(normalize_numbers(StrOf(x)), WesternDigits \cup {"."})

\* C17: for None, a number or a string, extract_number returns (a float or
\* None) and never raises; it returns None for None, for a string without a
\* digit, and for a cleaned string with more than one decimal point.
C17_NeverRaises ==
    pc = "done" =>
        /\ Val(out).k = "return"
        /\ Val(arg).t = "null" => IsNone(Val(out).v)
        /\ (Val(arg).t = "str" /\ ~HasDigit(Val(arg).s)) => IsNone(Val(out).v)
        /\ (Val(arg).t # "null" /\ CountChar(CleanedOf(Val(arg)), ".") > 1)
               => IsNone(Val(out).v)

\* a string whose cleaned text has two decimal points: float() fails on it
\* and the call returned None
C17_Witness ==
    /\ pc = "done"
    /\ Val(arg) = JStr(<<".", "ar1", "ar.">>)
    /\ Val(out) = Return(None)

(***************************************************************************)
(* Tax-rate coercion, checked under SpecComplete                           *)
(***************************************************************************)
\* C18: after _post_process_invoice_data every item's tax_rate is None, the
\* sentinel "exempt" or a float; no other string remains in it.
C18_TaxRateCoerced ==
    pc \in {"once", "twice"} =>
        \A i \in 1..Len(Val(inv).items) :
            \/ Val(inv).items[i].tax_rate.k \in {"none", "num"}
            \/ Val(inv).items[i].tax_rate = TaxStr(<<"e", "x", "e", "m", "p", "t">>)

(***************************************************************************)
(* Claims about the row flattening, checked under SpecRows                 *)
(***************************************************************************)
HeaderColumns == {"electronic_invoice_number", "seller_invoice_number", "buyer_name"}

EmptyCell == StrCell(<< >>)

\* C19: create_invoice_rows returns one row per line item in item order (a
\* single row when there are no items), every row repeats the same header
\* values, and the grand total and total VAT columns are empty on every row
\* after the first.
C19_RowFlattening ==
    pc = "flat" =>
        /\ Len(Val(out)) = (IF Val(inv).items = << >> THEN 1 ELSE Len(Val(inv).items))
        /\ \A i \in 1..Len(Val(inv).items) :
               /\ Val(out)[i].description = StrOrEmpty(Val(inv).items[i].description)
               /\ Val(out)[i].quantity = NumOrDefault(Val(inv).items[i].quantity, NumCell(0))
        /\ \A i \in 1..Len(Val(out)) : \A h \in HeaderColumns :
               Val(out)[i][h] = Val(out)[1][h]
        /\ \A i \in 2..Len(Val(out)) :
               /\ Val(out)[i].grand_total = EmptyCell
               /\ Val(out)[i].total_tax = EmptyCell

\* three items, header values and both totals: three rows in item order, the
\* totals on the first row only
C19_Witness ==
    /\ pc = "flat"
    /\ Len(Val(inv).items) = 3
    /\ Val(inv).items[1].description = Some(W_cd)
    /\ Val(inv).items[2].description = Some(W_ab)
    /\ Len(Val(out)) = 3
    /\ Val(out)[1].description = StrCell(W_cd)
    /\ Val(out)[2].description = StrCell(W_ab)
    /\ Val(out)[3].electronic_invoice_number = StrCell(W_EIN7)
    /\ Val(out)[1].grand_total = NumCell(12500)
    /\ Val(out)[1].total_tax = NumCell(320)
    /\ Val(out)[2].grand_total = EmptyCell
    /\ Val(out)[3].total_tax = EmptyCell

(***************************************************************************)
(* Claims about pipelines running side by side, checked under              *)
(* SpecConcurrent                                                          *)
(***************************************************************************)
\* the client objects the pipelines hold or have used
ClientsInUse ==
    { Val(proc[p].client).id : p \in { q \in Pipelines : ~IsNone(proc[q].client) } }
    \cup { Val(proc[p].result).client :
             p \in { q \in Pipelines : ~IsNone(proc[q].result) /\ Val(proc[q].result).record } }

\* C20: pipelines for different documents share no mutable variable, so every
\* interleaving of their steps ends as running them one after another ends
\* and the lazily initialised inference client needs no lock: the client is
\* constructed at most once and every pipeline works with that one client.
C20_InterleavingsAsSequential ==
    /\ clients <= 1
    /\ ClientsInUse \subseteq {1}

(***************************************************************************)
(* Order of cleanup and alignment in the text strategy, checked under      *)
(* SpecPipe                                                                *)
(***************************************************************************)
\* C21: in the text-plus-alignment strategy the secondary cleanup
\* _clean_item_description is applied after alignment, to each item's final
\* description: the description the strategy returns is the one cleanup gives
\* for the description alignment left, whichever path produced it.
C21_CleanupAfterAlignment ==
    TextGaveRecord =>
        \A i \in 1..Len(Val(Val(textRet).v).items) :
            Val(Val(textRet).v).items[i].description =
                _clean_item_description(Val(Val(textRet).v).items[i].description,
                                        Val(Val(textRet).v).items[i].quantity)

(***************************************************************************)
(* Description cleanup, checked under SpecComplete                         *)
(***************************************************************************)
\* a token that is a number standing on its own: digits only
IsNumericToken(tok) == tok # << >> /\ \A i \in 1..Len(tok) : tok[i] \in WesternDigits

RECURSIVE NumericTokens(_)
NumericTokens(parts) ==
    IF parts = << >> THEN << >>
    ELSE (IF IsNumericToken(Head(parts)) THEN <<Head(parts)>> ELSE << >>)
         \o NumericTokens(Tail(parts))

\* the whitespace-separated numeric tokens of a description, in order
NumbersOf(description) ==
    IF IsNone(description) THEN << >> ELSE NumericTokens(Split(Val(description)))

\* C22: _clean_item_description removes only a trailing digit 1-9 glued to
\* the last word and a leading prefix glued to the first word that equals the
\* quantity; every whitespace-separated numeric token of the description (as
\* in "25 t 26 d m 8") is left unchanged.
C22_ConservativeCleanup ==
    pc = "once" =>
        \A i \in 1..Len(Val(inv0).items) :
            NumbersOf(Val(inv1).items[i].description)
                = NumbersOf(Val(inv0).items[i].description)

(***************************************************************************)
(* Bag-of-words fallback, checked under SpecAlign                          *)
(***************************************************************************)
\* the non-numeric tokens of the item's description (none without one)
RequiredTokens(item) ==
    IF IsNone(item.description) THEN {} ELSE TokensNoNumbers(Val(item.description))

\* the fallback is the path taken: a number is missing or no window of lines
\* holds the item's five numbers behind a description
FallbackTaken(ls, item) ==
    ~HaveAllNumbers(item) \/ IsNone(NumericAnchorFrom(ls, TargetNums(item), 0, 1))

\* the positions of the lines whose non-numeric tokens hold all of the set
LinesHolding(ls, tokens) == { k \in 1..Len(ls) : tokens \subseteq TokensNoNumbers(ls[k]) }

FirstOf(S) == CHOOSE k \in S : \A j \in S : k <= j

\* what the fallback is said to give for the qualifying positions Q
FallbackGives(ls, before, after, Q) ==
    IF Q # {}
    THEN /\ _find_description_from_lines_for_item(ls, before) = Some(Strip(ls[FirstOf(Q)]))
         /\ after.description = Some(Strip(ls[FirstOf(Q)]))
    ELSE /\ _find_description_from_lines_for_item(ls, before) = None
         /\ after.description = before.description

\* C23 (as stated): on the fallback path the item's description becomes the
\* first source line, trimmed, whose non-numeric tokens are a superset of the
\* non-numeric tokens of the inference description, and stays unchanged when
\* no line qualifies.
C23_BagOfWordsSuperset ==
    (pc = "aligned" /\ Val(lines) # << >>) =>
        \A i \in 1..Len(Val(inv0).items) :
            FallbackTaken(Val(lines), Val(inv0).items[i]) =>
                FallbackGives(Val(lines), Val(inv0).items[i], Val(inv).items[i],
                              LinesHolding(Val(lines), RequiredTokens(Val(inv0).items[i])))

\* C23 (amended): the same, for a description with at least one non-numeric
\* token; on the fallback path an item whose description is absent, empty or
\* made of numeric tokens only gets no line and keeps its description.
C23_BagOfWordsFallback ==
    (pc = "aligned" /\ Val(lines) # << >>) =>
        \A i \in 1..Len(Val(inv0).items) :
            FallbackTaken(Val(lines), Val(inv0).items[i]) =>
                FallbackGives(Val(lines), Val(inv0).items[i], Val(inv).items[i],
                    IF RequiredTokens(Val(inv0).items[i]) = {} THEN {}
                    ELSE LinesHolding(Val(lines), RequiredTokens(Val(inv0).items[i])))

\* "mn qt" without numbers and two lines that both hold qt, mn and a further
\* word: the first of the two lines became the description
C23_Witness ==
    /\ pc = "aligned"
    /\ Val(lines) = <<LineQuantityFirst, LineDescriptionFirst>>
    /\ Len(Val(inv0).items) = 1
    /\ Val(inv0).items[1].description = Some(Join(<<W_mn, W_qt>>))
    /\ ~HaveAllNumbers(Val(inv0).items[1])
    /\ Val(inv).items[1].description = Some(LineQuantityFirst)

(***************************************************************************)
(* Grand-total resolution, checked under SpecComplete                      *)
(***************************************************************************)
\* the sum of the line totals the items carry after back-fill
LineTotalSum(rec) == SumPresent(rec.items, "line_total")

\* C24: when grand_total is absent on entry, the completer sets it to
\* subtotal + total_tax if both are present after back-fill; else to subtotal
\* if only subtotal is present; else, if only total_tax is present, to the sum
\* of the items' present line_total values provided that sum is strictly
\* positive; otherwise grand_total stays null.
C24_GrandTotalResolution ==
    (pc = "once" /\ IsNone(Val(inv0).grand_total)) =>
        Val(inv1).grand_total =
            CASE ~IsNone(Val(inv1).subtotal) /\ ~IsNone(Val(inv1).total_tax)
                     -> Some(Val(Val(inv1).subtotal) + Val(Val(inv1).total_tax))
              [] ~IsNone(Val(inv1).subtotal) /\ IsNone(Val(inv1).total_tax)
                     -> Val(inv1).subtotal
              [] IsNone(Val(inv1).subtotal) /\ ~IsNone(Val(inv1).total_tax)
                   /\ LineTotalSum(Val(inv1)) > 0
                     -> Some(LineTotalSum(Val(inv1)))
              [] OTHER -> None

\* only total_tax is present after back-fill and the line totals sum to 70.00
C24_Witness ==
    /\ pc = "once"
    /\ IsNone(Val(inv0).grand_total)
    /\ IsNone(Val(inv1).subtotal)
    /\ Val(inv1).total_tax = Some(700)
    /\ Len(Val(inv1).items) = 2
    /\ LineTotalSum(Val(inv1)) = 7000
    /\ Val(inv1).grand_total = Some(7000)

\* subtotal and total_tax both came from the items: 150.00 + 5.00
C24_WitnessBoth ==
    /\ pc = "once"
    /\ IsNone(Val(inv0).grand_total) /\ IsNone(Val(inv0).subtotal)
    /\ IsNone(Val(inv0).total_tax)
    /\ Val(inv1).subtotal = Some(15000)
    /\ Val(inv1).total_tax = Some(500)
    /\ Val(inv1).grand_total = Some(15500)

(***************************************************************************)
(* Inference calls per document, checked under SpecPipe                    *)
(***************************************************************************)
\* how many times the step was taken for the document
TimesCalled(step) == Cardinality({ k \in 1..Len(calls) : calls[k] = step })

\* C25: for one document the inference service is called at most once per
\* strategy and never again after a failure: at most two calls for a PDF
\* (text, then vision), at most one (vision) for an image file, none for
\* another file, on every path.
C25_SingleAttemptPerStrategy ==
    /\ TimesCalled("text") <= 1
    /\ TimesCalled("vision") <= 1
    /\ fileKind # "pdf" => TimesCalled("text") = 0
    /\ fileKind = "other" => TimesCalled("vision") = 0
    /\ \A j, k \in 1..Len(calls) : (calls[j] = "text" /\ calls[k] = "vision") => j < k
    /\ (TimesCalled("text") = 1) <=> ~IsNone(textOut)
    /\ (TimesCalled("vision") = 1) <=> ~IsNone(visionOut)

\* a PDF whose text call failed and whose vision call hit the rate limit: two
\* inference calls were made and the document is done
C25_Witness ==
    /\ pc = "done"
    /\ fileKind = "pdf"
    /\ TimesCalled("text") = 1 /\ TimesCalled("vision") = 1
    /\ Val(textOut).k = "quota"
    /\ Val(visionOut).k = "rate limit"

(***************************************************************************)
(* Fail-soft reconciliation, checked under SpecReconcile                   *)
(***************************************************************************)
\* how many entries of a raw items list are mappings
MappingCount(raw_items) == Cardinality({ i \in 1..Len(raw_items) : raw_items[i].isdict })

\* C26: _post_process_extracted_data returns an empty mapping for a payload
\* that is not a mapping; for a mapping payload with an items list it returns
\* a mapping whose items list holds one mapping per raw entry that is a
\* mapping, the other entries being dropped.
C26_FailSoft ==
    pc = "once" =>
        /\ ~Val(arg).isdict => \A k \in TopKeys : ~Has(Val(out), k)
        /\ (Val(arg).isdict /\ Val(arg).d["items"].t = "list") =>
              /\ Val(out)["items"].t = "list"
              /\ \A i \in 1..Len(Val(out)["items"].l) : Val(out)["items"].l[i].isdict
              /\ Len(Val(out)["items"].l) = MappingCount(Val(arg).d["items"].l)

\* an items list with an entry that is no mapping in front of a mapping: one
\* item is left
C26_Witness ==
    /\ pc = "once"
    /\ Val(arg).isdict
    /\ Val(arg).d["items"].t = "list"
    /\ Len(Val(arg).d["items"].l) = 2
    /\ ~Val(arg).d["items"].l[1].isdict
    /\ Val(arg).d["items"].l[2].isdict
    /\ Len(Val(out)["items"].l) = 1
    /\ Val(out)["items"].l[1].isdict

\* the payload that is no mapping gave the empty mapping
C26_WitnessNoMapping ==
    /\ pc = "once"
    /\ ~Val(arg).isdict
    /\ Val(out) = EmptyMapping

(***************************************************************************)
(* Item order through the stages, checked under SpecChain                  *)
(***************************************************************************)
\* the quantities of the raw entries that are mappings, in raw order, under
\* either spelling of the key
RECURSIVE RawQuantities(_)
RawQuantities(raw_items) ==
    IF raw_items = << >> THEN << >>
    ELSE (IF Head(raw_items).isdict
          THEN <<IF Has(Head(raw_items).d, "quantity") THEN Head(raw_items).d["quantity"].n
                 ELSE Head(raw_items).d["AR_quantity"].n>>
          ELSE << >>)
         \o RawQuantities(Tail(raw_items))

\* the quantities of the items in hand, in order
StageQuantities ==
    CASE pc = "reconciled" ->
             [i \in 1..Len(Val(out)["items"].l) |-> Val(out)["items"].l[i].d["quantity"].n]
      [] pc \in {"validated", "completed", "aligned"} ->
             [i \in 1..Len(Val(inv).items) |-> Val(Val(inv).items[i].quantity)]
      [] pc = "flat" ->
             [i \in 1..Len(Val(result).v) |-> Val(result).v[i].quantity.n]
      [] OTHER -> << >>

\* C27: through reconciliation, validation, completion, alignment and row
\* flattening the items keep the order of the raw inference output: after
\* each stage the items (the rows at the end) are the raw entries that are
\* mappings, one each, in raw order; an invoice left without items gets its
\* single row.
C27_ItemOrderPreserved ==
    pc \in {"reconciled", "validated", "completed", "aligned", "flat"} =>
        IF pc = "flat" /\ Val(inv).items = << >>
        THEN Len(Val(result).v) = 1
        ELSE StageQuantities = RawQuantities(Val(arg).d["items"].l)

\* three raw entries, the one in the middle no mapping: two rows, in raw
\* order, the first with the description taken from the source line
C27_Witness ==
    /\ pc = "flat"
    /\ Len(Val(arg).d["items"].l) = 3
    /\ Val(arg).d["items"].l[1].d["quantity"] = JNum(300)
    /\ ~Val(arg).d["items"].l[2].isdict
    /\ Val(arg).d["items"].l[3].d["quantity"] = JNum(100)
    /\ Len(Val(result).v) = 2
    /\ Val(result).v[1].quantity = NumCell(300)
    /\ Val(result).v[2].quantity = NumCell(100)
    /\ Val(result).v[2].description = StrCell(LineDescriptionFirst)

\* the lines that hold the item's five numbers as one run of numeric tokens
\* with text before the first of them
LinesWithRun(ls, item) ==
    { k \in 1..Len(ls) : WindowDescription(Split(Strip(ls[k])), TargetNums(item)) # << >> }

TokenSet(s) == { Split(s)[j] : j \in 1..Len(Split(s)) }

\* C28: when the five numbers of an item stand as one numeric run inside a
\* single source line that has text before the run, the description the
\* aligner gives the item is made of tokens of such a line only; no token of
\* the lines before it is taken in
C28_AnchorStaysInRow ==
    pc = "aligned" =>
        \A i \in 1..Len(Val(inv0).items) :
            LET item == Val(inv0).items[i]
                held == LinesWithRun(Val(lines), item)
            IN  (HaveAllNumbers(item) /\ held # {}) =>
                    /\ ~IsNone(Val(inv).items[i].description)
                    /\ \E k \in held :
                           TokenSet(Val(Val(inv).items[i].description))
                               \subseteq TokenSet(Val(lines)[k])

\* a file whose processing gave rows
GaveRows(file) == file.does.k = "return" /\ file.does.v # << >>

RECURSIVE RowsOfAll(_)
RowsOfAll(fs) ==
    IF fs = << >> THEN << >>
    ELSE (IF GaveRows(Head(fs)) THEN Head(fs).does.v ELSE << >>) \o RowsOfAll(Tail(fs))

NamesOf(fs) == [i \in 1..Len(fs) |-> fs[i].filename]

FailedOf(fs) == SelectSeq(fs, LAMBDA file : ~GaveRows(file))

\* C29: after the per-file loop every uploaded file is counted once, as
\* processed when its rows were appended and as failed otherwise, whatever
\* the files before it did, an exception included; the rows handed on are
\* those of the processed files, in order, and nothing else, except when no
\* file was processed: then there is one placeholder row per file
C29_BatchAccounting ==
    /\ pc \in {"looped", "rows"} =>
           /\ file_no = Len(files)
           /\ processed_count + Len(failed_files) = Len(files)
           /\ processed_count = Len(files) - Len(FailedOf(files))
           /\ failed_files = NamesOf(FailedOf(files))
    /\ pc = "looped" => all_rows = RowsOfAll(files)
    /\ pc = "rows" =>
           IF \E i \in 1..Len(files) : GaveRows(files[i])
           THEN all_rows = RowsOfAll(files)
           ELSE /\ Len(all_rows) = Len(files)
                /\ \A i \in 1..Len(files) :
                       all_rows[i] = PlaceholderRow(files[i].filename)

\* three files, the first raises, the second gives no rows, the third is
\* processed
C29_Witness ==
    /\ pc = "rows"
    /\ Len(files) = 3
    /\ files[1].does.k = "raise"
    /\ files[2].does = Return(<< >>)
    /\ GaveRows(files[3])
    /\ processed_count = 1
    /\ all_rows = files[3].does.v

\* every file of the request failed, one of them by an exception
C29_WitnessAllFailed ==
    /\ pc = "rows"
    /\ Len(files) = 2
    /\ processed_count = 0
    /\ \E i \in 1..2 : files[i].does.k = "raise"
    /\ Len(all_rows) = 2

\* C30: for a number x, negative ones included, extract_number(x) is
\* float(x); the sign of a negative number is kept
C30_NumbersPreserved ==
    (pc = "done" /\ Val(arg).t = "num") => Val(out) = Return(Some(Val(arg).n))

====
